---- MODULE Spec2Model ----
(***************************************************************************)
(* The streaming inference gateway of apps/llm-api: the three backend      *)
(* variants (app_ollama.py, app_onnx.py, app_onnx_genai.py), each with a   *)
(* non-streaming endpoint /v1/chat and a streaming endpoint                *)
(* /v1/chat/stream.  One request is driven from its arrival to the point   *)
(* where its handler (or its SSE generator) has finished, crashed or been  *)
(* cancelled.  The backend and the caller are the environment.             *)
(***************************************************************************)
EXTENDS Integers, Sequences, FiniteSets, TLC

(***************************************************************************)
(* Bounds of the model.                                                    *)
(***************************************************************************)
MaxLines == 3     \* backend lines one streaming request may receive
MaxTime == 3      \* largest value of the wall clock (it starts at 1)
MaxContent == 3   \* characters of a completion decoded by the ONNX model
MaxGen == 2       \* tokens one onnxruntime-genai generator may produce
MaxMessages == 2  \* messages of a request whose prompt is examined
MaxFrames == 4    \* lines of the gateway's response one client run may read
MaxUtc == 5       \* largest value of datetime.utcnow() (it starts at 0)
ClockHz == 64     \* readings of time.time() per second (the 15.6 ms system
                  \* timer of the platform the services are developed on)

(***************************************************************************)
(* Program constants.  Temperatures are counted in tenths.                 *)
(***************************************************************************)
TempMin == 0
TempMax == 20
MinMessages == 1
MinMaxTokens == 1
DEFAULT_MAX_NEW_TOKENS == 512
GENAI_DEFAULT_MAX_LENGTH == 4096
\* the durations the daemon reports are counted in milliseconds here: the
\* 1_000_000_000 nanoseconds of a second are 1000 of these units
DurationHz == 1000
\* SessionManager.session_timeout, timedelta(hours=24), in units of 12 hours
session_timeout == 2

(***************************************************************************)
(* Python values.  An Optional is <<>> (None) or <<v>>.                    *)
(***************************************************************************)
None == <<>>
Some(v) == <<v>>
Val(o) == o[1]
\* Python truthiness of an Optional[int] / Optional[float]
Truthy(o) == o # None /\ Val(o) # 0

Chars == {"a", "b", " "}
NL == "\n"
Whitespace == {" ", NL}

RECURSIVE Concat(_)
\* "".join(seq of strings)
Concat(ss) == IF ss = <<>> THEN <<>> ELSE Head(ss) \o Concat(Tail(ss))

(***************************************************************************)
(* Numbers.  A float the code computes by a division is kept exactly, as   *)
(* the fraction <<numerator, denominator>>; a duration is a number of      *)
(* clock readings (ticks).                                                 *)
(***************************************************************************)
\* a / b rounded to an integer, halves to the even neighbour (Python's round)
HalfEven(a, b) ==
    LET q == a \div b
        twice == 2 * (a % b)
    IN  IF twice < b THEN q
        ELSE IF twice > b THEN q + 1
        ELSE IF q % 2 = 0 THEN q ELSE q + 1

\* round(x, k), counted in units of 10^-k
Round(x, k) == HalfEven(x[1] * 10^k, x[2])

\* a duration of d ticks, in seconds
Secs(d) == <<d, ClockHz>>

\* tokens / seconds
Rate(tokens, d) == <<tokens * ClockHz, d>>

\* seconds / tokens
PerToken(d, tokens) == <<d, ClockHz * tokens>>

\* the durations are taken for seconds as they come
ReportedSecsUnconverted(d) == <<d, 1>>

\* a duration the daemon reports, in seconds: `data.get(...) / 1_000_000_000`
ReportedSecs(d) == <<d, DurationHz>>

\* tokens / g, for g a positive number of seconds
TokensOver(tokens, g) == <<tokens * g[2], g[1]>>

\* g / tokens, for g a number of seconds
SecsPer(g, tokens) == <<g[1], g[2] * tokens>>

\* Python truthiness of an Optional float kept as a fraction
TruthyFrac(o) == o # None /\ Val(o)[1] # 0

\* `round(x, k) if x else None`
Rounded(o, k) == IF TruthyFrac(o) THEN Some(Round(Val(o), k)) ELSE None

(***************************************************************************)
(* Requests.                                                               *)
(***************************************************************************)
Variants == {"ollama", "onnx", "genai"}
Endpoints == {"chat", "stream"}

UserHi == [role |-> "user", content |-> <<"a">>]

\* the default of ChatRequest.model
DefaultModel(v) ==
    CASE v = "ollama" -> "smollm2:1.7b"
      [] v = "onnx" -> "onnx-local"
      [] v = "genai" -> "onnx-genai"
      [] OTHER -> ""

\* a request body that leaves the model to its default
MkReq(v, e, msgs, t, mt) ==
    [variant |-> v, endpoint |-> e, model |-> DefaultModel(v), messages |-> msgs,
     temperature |-> t, max_tokens |-> mt]

\* the model name the metrics carry: req.model, `req.model or "onnx-local"`
ModelOf(q) == IF q.variant = "onnx" /\ q.model = "" THEN "onnx-local" ELSE q.model

\* the field constraints of ChatRequest in app_ollama.py and app_onnx_genai.py
ValidateConstrained(q) ==
    /\ Len(q.messages) >= MinMessages
    /\ q.temperature >= TempMin
    /\ q.temperature <= TempMax
    /\ (IF q.max_tokens = None THEN TRUE ELSE Val(q.max_tokens) >= MinMaxTokens)

\* ChatRequest of app_onnx.py declares the field types only
ValidateOnnx(q) == TRUE

Validate(q) ==
    IF q.variant = "onnx" THEN ValidateOnnx(q) ELSE ValidateConstrained(q)

\* what the spec calls a valid request
WellFormed(q) ==
    /\ Len(q.messages) >= 1
    /\ q.temperature >= 0 /\ q.temperature <= 20
    /\ (IF q.max_tokens = None THEN TRUE ELSE Val(q.max_tokens) > 0)

(***************************************************************************)
(* Prompt building.  A text is a sequence of characters; an upper-cased    *)
(* role name is one character of it.                                       *)
(***************************************************************************)
Roles == {"system", "user", "assistant"}

\* m.role.upper()
Upper(role) ==
    CASE role = "system" -> "SYSTEM"
      [] role = "user" -> "USER"
      [] role = "assistant" -> "ASSISTANT"

RECURSIVE JoinLines(_)
\* "\n".join(ss)
JoinLines(ss) ==
    IF ss = <<>> THEN <<>>
    ELSE IF Len(ss) = 1 THEN ss[1]
    ELSE ss[1] \o <<NL>> \o JoinLines(Tail(ss))

RECURSIVE LStrip(_)
LStrip(s) == IF s # <<>> /\ Head(s) \in Whitespace THEN LStrip(Tail(s)) ELSE s

RECURSIVE RStrip(_)
RStrip(s) ==
    IF s # <<>> /\ s[Len(s)] \in Whitespace THEN RStrip(SubSeq(s, 1, Len(s) - 1)) ELSE s

\* str.strip()
Strip(s) == RStrip(LStrip(s))

RECURSIVE SystemContents(_)
\* [m.content for m in messages if m.role == "system"]
SystemContents(msgs) ==
    IF msgs = <<>> THEN <<>>
    ELSE (IF Head(msgs).role = "system" THEN <<Head(msgs).content>> ELSE <<>>)
         \o SystemContents(Tail(msgs))

\* f"{m.role.upper()}: {m.content}"
RoleLine(m) == <<Upper(m.role), ":", " ">> \o m.content

RECURSIVE HistoryLines(_)
\* [f"{m.role.upper()}: {m.content}" for m in messages if m.role != "system"]
HistoryLines(msgs) ==
    IF msgs = <<>> THEN <<>>
    ELSE (IF Head(msgs).role # "system" THEN <<RoleLine(Head(msgs))>> ELSE <<>>)
         \o HistoryLines(Tail(msgs))

\* app_ollama chat(): the prompt, built inline
OllamaChatPrompt(msgs) ==
    Strip(JoinLines(SystemContents(msgs)) \o <<NL>> \o JoinLines(HistoryLines(msgs)))

\* the prompt of a relay that forgets to trim it
OllamaStreamPromptUntrimmed(msgs) ==
    JoinLines(SystemContents(msgs)) \o <<NL>> \o JoinLines(HistoryLines(msgs))

\* app_ollama chat_stream(): the prompt, built inline
OllamaStreamPrompt(msgs) ==
    Strip(JoinLines(SystemContents(msgs)) \o <<NL>> \o JoinLines(HistoryLines(msgs)))

\* app_onnx build_prompt
OnnxBuildPrompt(msgs) ==
    Strip(JoinLines(SystemContents(msgs)) \o <<NL>> \o JoinLines(HistoryLines(msgs)))

\* app_onnx_genai build_prompt
GenaiBuildPrompt(msgs) ==
    Strip(JoinLines(SystemContents(msgs)) \o <<NL>> \o JoinLines(HistoryLines(msgs))
          \o <<NL, "ASSISTANT", ":">>)

\* a backend call made for a request
Call(op, streaming, limit, prompt) ==
    [op |-> op, stream |-> streaming, limit |-> limit, prompt |-> prompt]

\* the JSON body posted to the daemon's /api/generate: the call, with the
\* model name and the temperature option
OllamaPayload(q, streaming, limit, prompt) ==
    [op |-> "generate", stream |-> streaming, limit |-> limit, prompt |-> prompt,
     model |-> q.model, temperature |-> q.temperature]

(***************************************************************************)
(* Backend lines of the daemon's newline-delimited JSON stream.  A line    *)
(* is empty, is not JSON ("garbage"), is JSON but not an object            *)
(* ("nonobj"), or is an object with the keys the relay reads.              *)
(***************************************************************************)
MkLine(k, d, txt, pec, ec) ==
    [kind |-> k, done |-> d, response |-> txt, prompt_eval_count |-> pec, eval_count |-> ec]

EmptyLine == MkLine("empty", FALSE, <<>>, None, None)
GarbageLine == MkLine("garbage", FALSE, <<>>, None, None)
NonObjLine == MkLine("nonobj", FALSE, <<>>, None, None)
Fragment(txt) == MkLine("obj", FALSE, txt, None, None)
DoneLine(txt, pec, ec) == MkLine("obj", TRUE, txt, pec, ec)

\* the lines a backend may send
BackendLines ==
    {EmptyLine, GarbageLine, NonObjLine}
    \cup {Fragment(t) : t \in {<<>>, <<"a">>, <<"b">>}}
    \cup {DoneLine(<<>>, pec, ec) : pec \in {None, Some(3)}, ec \in {None, Some(0), Some(2)}}
    \cup {DoneLine(<<"a">>, None, None)}

\* token = obj.get("wrong key", ""): nothing is ever read
ResponseOfWrongKey(line) == <<>>

\* token = obj.get("response", "")
ResponseOf(line) == line.response

\* json.loads(line): "JSONDecodeError", a dict, or another JSON value
JsonLoads(line) ==
    CASE line.kind = "garbage" -> "JSONDecodeError"
      [] line.kind = "nonobj" -> "value"
      [] OTHER -> "dict"

(***************************************************************************)
(* Events written to the caller (the payload of one SSE frame).            *)
(***************************************************************************)
DONE == <<"[DONE]">>

NoMetrics ==
    [ttft |-> None, total_latency |-> None, tokens_per_second |-> None,
     output_tokens_per_second |-> None, input_tokens |-> None, output_tokens |-> None,
     tpot |-> None, model |-> ""]

TokenEvent(txt) == [type |-> "token", token |-> txt, metrics |-> NoMetrics]
DoneEvent(m) == [type |-> "done", token |-> DONE, metrics |-> m]

IsTerminal(e) == e.type \in {"done", "failed"}

\* a frame without the blank line that ends an SSE event
SseFrameOneNewline(payload) == <<"data: ", payload, <<NL>>>>

\* f"data: {json.dumps(payload)}\n\n"
SseFrame(payload) == <<"data: ", payload, <<NL, NL>>>>

\* the dict of a token frame
TokenPayload(e) == [token |-> e.token]

\* final_event
FinalPayload(e) == [done |-> TRUE, token |-> e.token, metrics |-> e.metrics]

\* the chunk a streaming generator yields for an event
Encode(e) == SseFrame(IF e.type = "done" THEN FinalPayload(e) ELSE TokenPayload(e))

(***************************************************************************)
(* Performance metrics.  Durations are in ticks.                           *)
(***************************************************************************)
\* the time to the first token is not taken off
GenerationTimeWhole(ttft_, total_latency) == total_latency

\* generation_time = total_latency - (ttft if ttft else 0)
GenerationTime(ttft_, total_latency) ==
    total_latency - (IF Truthy(ttft_) THEN Val(ttft_) ELSE 0)

\* the prompt tokens are left out of the total
TotalTokensOutputOnly(input_tokens, output_tokens) == output_tokens

\* total_tokens = prompt_eval_count + eval_count
TotalTokens(input_tokens, output_tokens) == input_tokens + output_tokens

\* tokens_per_second, output_tokens_per_second and tpot before rounding:
\* None unless the nested guards let the division be made; total_latency
\* is in ticks, generation_time in seconds
Rates(total_latency, input_tokens, output_tokens, generation_time) ==
    LET total_tokens == TotalTokens(input_tokens, output_tokens)
        timed == total_latency > 0
        rated == timed /\ output_tokens > 0 /\ generation_time[1] > 0
    IN  [tokens_per_second |->
             IF timed /\ total_tokens > 0
             THEN Some(Rate(total_tokens, total_latency)) ELSE None,
         output_tokens_per_second |->
             IF rated THEN Some(TokensOver(output_tokens, generation_time)) ELSE None,
         tpot |->
             IF rated THEN Some(SecsPer(generation_time, output_tokens)) ELSE None]

\* the metrics object: latencies rounded to 4 decimals, rates to 2
MetricsObject(ttft_, total_latency, rates, input_tokens, output_tokens, model) ==
    [ttft |-> IF Truthy(ttft_) THEN Some(Round(Secs(Val(ttft_)), 4)) ELSE None,
     total_latency |-> Some(Round(Secs(total_latency), 4)),
     tokens_per_second |-> Rounded(rates.tokens_per_second, 2),
     output_tokens_per_second |-> Rounded(rates.output_tokens_per_second, 2),
     input_tokens |-> input_tokens,
     output_tokens |-> output_tokens,
     tpot |-> Rounded(rates.tpot, 4),
     model |-> model]

\* `n if n > 0 else None`
PositiveOrNone(n) == IF n > 0 THEN Some(n) ELSE None

\* the metrics object of app_ollama's event_gen
StreamMetrics(ttft_, total_latency, pec, ec, model) ==
    MetricsObject(ttft_, total_latency,
                  Rates(total_latency, pec, ec, Secs(GenerationTime(ttft_, total_latency))),
                  PositiveOrNone(pec), PositiveOrNone(ec), model)

\* generation_time of app_ollama's chat(), in seconds: the daemon's own
\* durations when they leave a positive difference, the measured latency
\* otherwise
ChatGenerationTime(data, total_latency) ==
    LET total_duration_s == ReportedSecs(data.total_duration)
        prompt_duration_s == ReportedSecs(data.prompt_eval_duration)
    IN  IF total_duration_s[1] > prompt_duration_s[1]
        THEN <<total_duration_s[1] - prompt_duration_s[1], total_duration_s[2]>>
        ELSE Secs(total_latency)

\* the metrics object of app_ollama's chat()
ChatMetrics(total_latency, data, model) ==
    MetricsObject(None, total_latency,
                  Rates(total_latency, data.prompt_eval_count, data.eval_count,
                        ChatGenerationTime(data, total_latency)),
                  PositiveOrNone(data.prompt_eval_count), PositiveOrNone(data.eval_count),
                  model)

(***************************************************************************)
(* State.                                                                  *)
(***************************************************************************)
VARIABLES
    pc,                    \* where each request's handler / generator stands
    req,                   \* the request body
    resp,                  \* the HTTP response status line the caller got
    cause,                 \* why the request failed (a fact of the environment)
    callerGone,            \* the caller has disconnected
    calls,                 \* backend calls made for the request, in order
    connOpen,              \* the request's backend connection is open
    lines,                 \* backend lines received so far
    out,                   \* events emitted to the caller so far
    start_time,
    end_time,
    ttft,
    first_token_received,
    token_count,
    content,               \* app_onnx: the decoded completion
    emitted,               \* app_onnx: words already streamed
    first_chunk_time,      \* app_onnx: nonlocal of chat_stream
    gen_len,               \* genai: tokens the generator has produced
    gen_done,              \* genai: generator.is_done()
    now,                   \* time.time()
    model_loaded           \* app_onnx: the globals _tokenizer/_model are set

reqVars ==
    <<pc, req, resp, cause, callerGone, calls, connOpen, lines, out, start_time, end_time,
      ttft, first_token_received, token_count, content, emitted, first_chunk_time, gen_len,
      gen_done>>

vars == <<reqVars, now, model_loaded>>

\* the state of the user interfaces that consume the gateway
VARIABLES
    client_pc,             \* LLMClient.chat_stream: where the generator stands
    client_lines,          \* LLMClient.chat_stream: response lines read so far
    full_content,          \* LLMClient.chat_stream: local of the generator
    yielded                \* LLMClient.chat_stream: events yielded so far

clientVars == <<client_pc, client_lines, full_content, yielded>>

VARIABLES
    messages,              \* Panel ChatState.messages
    current_input,         \* Panel ChatState.current_input
    is_streaming,          \* Panel ChatState.is_streaming
    last_metrics,          \* Panel ChatState.last_ttft ... last_output_tokens
    assistant_at,          \* send_message_async: where assistant_msg is in messages
    send_pc,               \* send_message_async: where each call stands
    seen                   \* send_message_async: events of the stream consumed

panelVars ==
    <<messages, current_input, is_streaming, last_metrics, assistant_at, send_pc, seen>>

VARIABLES
    rx_pc,                 \* Reflex send_message: where the handler stands
    rx_lines,              \* LLMAPIClient.chat_stream: response lines read so far
    rx_messages,           \* Reflex ChatState.messages
    rx_current_input,      \* Reflex ChatState.current_input
    rx_is_streaming,       \* Reflex ChatState.is_streaming
    current_response,      \* Reflex ChatState.current_response
    error_message,         \* Reflex ChatState.error_message
    rx_last_metrics        \* Reflex ChatState.last_metrics

reflexVars ==
    <<rx_pc, rx_lines, rx_messages, rx_current_input, rx_is_streaming, current_response,
      error_message, rx_last_metrics>>

VARIABLES
    sessions,              \* SessionManager.sessions: per id, its last_activity
    issued,                \* the session ids secrets.token_urlsafe has returned
    session_id,            \* AuthState.session_id
    is_authenticated,      \* AuthState.is_authenticated
    last_call,             \* the last call to the session manager and its result
    utcnow                 \* datetime.utcnow()

sessionVars == <<sessions, issued, session_id, is_authenticated, last_call, utcnow>>

uiVars == <<clientVars, panelVars, reflexVars, sessionVars>>

\* what a step of each component leaves alone
notClientVars == <<vars, panelVars, reflexVars, sessionVars>>
notPanelVars == <<vars, reflexVars, sessionVars>>
notReflexVars == <<vars, clientVars, panelVars, sessionVars>>
notSessionVars == <<vars, clientVars, panelVars, reflexVars>>

NoReq == MkReq("none", "none", <<>>, 0, None)

InitOver(R) ==
    /\ pc = [r \in R |-> "idle"]
    /\ req = [r \in R |-> NoReq]
    /\ resp = [r \in R |-> "none"]
    /\ cause = [r \in R |-> "none"]
    /\ callerGone = [r \in R |-> FALSE]
    /\ calls = [r \in R |-> <<>>]
    /\ connOpen = [r \in R |-> FALSE]
    /\ lines = [r \in R |-> <<>>]
    /\ out = [r \in R |-> <<>>]
    /\ start_time = [r \in R |-> None]
    /\ end_time = [r \in R |-> None]
    /\ ttft = [r \in R |-> None]
    /\ first_token_received = [r \in R |-> FALSE]
    /\ token_count = [r \in R |-> 0]
    /\ content = [r \in R |-> <<>>]
    /\ emitted = [r \in R |-> 0]
    /\ first_chunk_time = [r \in R |-> None]
    /\ gen_len = [r \in R |-> 0]
    /\ gen_done = [r \in R |-> FALSE]
    /\ now = 1
    /\ model_loaded = FALSE

\* the wall clock advances
Tick ==
    /\ now < MaxTime
    /\ now' = now + 1
    /\ UNCHANGED <<reqVars, model_loaded>>
    /\ UNCHANGED uiVars

(***************************************************************************)
(* Request validation (pydantic, before the handler runs).                 *)
(***************************************************************************)
\* FastAPI answers 422 with the validation detail; the handler never runs
Reject(r, E) ==
    /\ pc[r] = "idle"
    /\ \E q \in E.inputs :
          /\ ~Validate(q)
          /\ req' = [req EXCEPT ![r] = q]
          /\ pc' = [pc EXCEPT ![r] = "rejected"]
          /\ resp' = [resp EXCEPT ![r] = "422"]
          /\ cause' = [cause EXCEPT ![r] = "invalid"]
          /\ UNCHANGED <<end_time, callerGone, calls, connOpen, lines, out, start_time, ttft,
                         first_token_received, token_count, content, emitted, first_chunk_time,
                         gen_len, gen_done, now, model_loaded>>
    /\ UNCHANGED uiVars

(***************************************************************************)
(* app_ollama.py: POST /v1/chat/stream                                     *)
(***************************************************************************)
\* the generation limit the streaming payload carries ("num_predict")
StreamLimit(q) == IF Truthy(q.max_tokens) THEN q.max_tokens ELSE None

\* chat_stream returns the StreamingResponse; event_gen runs up to the connect
OllamaChatStream(r, E) ==
    /\ pc[r] = "idle"
    /\ \E q \in E.inputs :
          /\ q.variant = "ollama" /\ q.endpoint = "stream"
          /\ Validate(q)
          /\ req' = [req EXCEPT ![r] = q]
          /\ resp' = [resp EXCEPT ![r] = "200"]
          /\ pc' = [pc EXCEPT ![r] = "connecting"]
          /\ start_time' = [start_time EXCEPT ![r] = Some(now)]
          /\ ttft' = [ttft EXCEPT ![r] = None]
          /\ first_token_received' = [first_token_received EXCEPT ![r] = FALSE]
          /\ token_count' = [token_count EXCEPT ![r] = 0]
          /\ UNCHANGED <<end_time, cause, callerGone, calls, connOpen, lines, out, content, emitted,
                         first_chunk_time, gen_len, gen_done, now, model_loaded>>
    /\ UNCHANGED uiVars

\* time.time() - start_time, with the operands exchanged
ElapsedReversed(r) == Val(start_time[r]) - now

\* time.time() - start_time
Elapsed(r) == now - Val(start_time[r])

\* the connect is tried again after a failure
ConnectRetried(r, c) ==
    /\ pc' = [pc EXCEPT ![r] = "connecting"]
    /\ cause' = [cause EXCEPT ![r] = c]
    /\ UNCHANGED connOpen

\* httpx.ConnectError or HTTPStatusError leaves the generator: nothing
\* catches it, the `async with` blocks close what was opened
ConnectFailed(r, c) ==
    /\ pc' = [pc EXCEPT ![r] = "crashed"]
    /\ cause' = [cause EXCEPT ![r] = c]
    /\ UNCHANGED connOpen

\* client.stream("POST", ...) and r.raise_for_status()
OllamaConnect(r, outcome) ==
    /\ pc[r] = "connecting"
    /\ req[r].variant = "ollama"
    /\ calls' = [calls EXCEPT ![r] =
          Append(@, OllamaPayload(req[r], TRUE, StreamLimit(req[r]),
                                  OllamaStreamPrompt(req[r].messages)))]
    /\ IF outcome \in {"refused", "status"}
       THEN ConnectFailed(r, outcome)
       ELSE /\ pc' = [pc EXCEPT ![r] = "streaming"]
            /\ connOpen' = [connOpen EXCEPT ![r] = TRUE]
            /\ UNCHANGED cause
    /\ UNCHANGED <<end_time, req, resp, callerGone, lines, out, start_time, ttft,
                   first_token_received, token_count, content, emitted, first_chunk_time,
                   gen_len, gen_done, now, model_loaded>>
    /\ UNCHANGED uiVars

\* the relay goes on with the next line after it has yielded the done event
ContinueAfterDone(r) == UNCHANGED <<pc, connOpen>>

\* `break` after the done event: the loop is left, both `async with` blocks
\* exit and the generator returns
BreakAfterDone(r) ==
    /\ pc' = [pc EXCEPT ![r] = "completed"]
    /\ connOpen' = [connOpen EXCEPT ![r] = FALSE]

\* every fragment counts, the empty one too
HasTokenAlways(token) == TRUE

\* `if token:`
HasToken(token) == token # <<>>

\* one iteration of `async for line in r.aiter_lines()`
OllamaLine(r, line) ==
    /\ pc[r] = "streaming"
    /\ req[r].variant = "ollama"
    /\ Len(lines[r]) < MaxLines
    /\ lines' = [lines EXCEPT ![r] = Append(@, line)]
    /\ CASE line.kind = "empty" \/ JsonLoads(line) = "JSONDecodeError" ->
              \* continue
              UNCHANGED <<pc, cause, connOpen, out, end_time, ttft, first_token_received,
                          token_count>>
         [] JsonLoads(line) = "value" ->
              \* obj.get raises AttributeError
              /\ pc' = [pc EXCEPT ![r] = "crashed"]
              /\ cause' = [cause EXCEPT ![r] = "badline"]
              /\ connOpen' = [connOpen EXCEPT ![r] = FALSE]
              /\ UNCHANGED <<out, end_time, ttft, first_token_received, token_count>>
         [] JsonLoads(line) = "dict" /\ line.done ->
              LET prompt_eval_count ==
                      IF line.prompt_eval_count # None THEN Val(line.prompt_eval_count) ELSE 0
                  eval_count ==
                      IF line.eval_count # None THEN Val(line.eval_count) ELSE token_count[r]
                  total_latency == Elapsed(r)
              IN  /\ end_time' = [end_time EXCEPT ![r] = Some(now)]
                  /\ out' = [out EXCEPT ![r] =
                        Append(@, DoneEvent(StreamMetrics(ttft[r], total_latency,
                                                          prompt_eval_count, eval_count,
                                                          ModelOf(req[r]))))]
                  /\ BreakAfterDone(r)
                  /\ UNCHANGED <<cause, ttft, first_token_received, token_count>>
         [] OTHER ->
              IF HasToken(ResponseOf(line))
              THEN /\ ttft' = [ttft EXCEPT ![r] =
                          IF first_token_received[r] THEN @ ELSE Some(Elapsed(r))]
                   /\ first_token_received' = [first_token_received EXCEPT ![r] = TRUE]
                   /\ token_count' = [token_count EXCEPT ![r] = @ + 1]
                   /\ out' = [out EXCEPT ![r] = Append(@, TokenEvent(ResponseOf(line)))]
                   /\ UNCHANGED <<pc, cause, connOpen, end_time>>
              ELSE UNCHANGED <<pc, cause, connOpen, out, end_time, ttft, first_token_received,
                               token_count>>
    /\ UNCHANGED <<req, resp, callerGone, calls, start_time, content, emitted,
                   first_chunk_time, gen_len, gen_done, now, model_loaded>>
    /\ UNCHANGED uiVars

\* at the end of the backend stream the relay makes up a done event from
\* what it has counted itself
OllamaEofFabricatesDone(r) ==
    /\ pc[r] = "streaming"
    /\ req[r].variant = "ollama"
    /\ pc' = [pc EXCEPT ![r] = "closed"]
    /\ connOpen' = [connOpen EXCEPT ![r] = FALSE]
    /\ end_time' = [end_time EXCEPT ![r] = Some(now)]
    /\ out' = [out EXCEPT ![r] =
          Append(@, DoneEvent(StreamMetrics(ttft[r], Elapsed(r), 0, token_count[r],
                                            ModelOf(req[r]))))]
    /\ UNCHANGED <<req, resp, cause, callerGone, calls, lines, start_time, ttft,
                   first_token_received, token_count, content, emitted, first_chunk_time,
                   gen_len, gen_done, now, model_loaded>>
    /\ UNCHANGED uiVars

\* aiter_lines is exhausted: the loop ends and the generator returns
OllamaEof(r) ==
    /\ pc[r] = "streaming"
    /\ req[r].variant = "ollama"
    /\ pc' = [pc EXCEPT ![r] = "closed"]
    /\ connOpen' = [connOpen EXCEPT ![r] = FALSE]
    /\ UNCHANGED <<end_time, req, resp, cause, callerGone, calls, lines, out, start_time, ttft,
                   first_token_received, token_count, content, emitted, first_chunk_time,
                   gen_len, gen_done, now, model_loaded>>
    /\ UNCHANGED uiVars

\* the backend connection drops: aiter_lines raises and the generator dies
OllamaDrop(r) ==
    /\ pc[r] = "streaming"
    /\ req[r].variant = "ollama"
    /\ pc' = [pc EXCEPT ![r] = "crashed"]
    /\ cause' = [cause EXCEPT ![r] = "drop"]
    /\ connOpen' = [connOpen EXCEPT ![r] = FALSE]
    /\ UNCHANGED <<end_time, req, resp, callerGone, calls, lines, out, start_time, ttft,
                   first_token_received, token_count, content, emitted, first_chunk_time,
                   gen_len, gen_done, now, model_loaded>>
    /\ UNCHANGED uiVars

(***************************************************************************)
(* app_ollama.py: POST /v1/chat                                            *)
(***************************************************************************)
ResponseEvent(txt, m) == [type |-> "response", token |-> txt, metrics |-> m]

\* the JSON object the daemon returns to a non-streaming call: the keys
\* chat() reads, a missing count or duration being the 0 chat() defaults to
ChatReply(txt, pec, ec, total_duration, prompt_eval_duration) ==
    [kind |-> "obj", done |-> TRUE, response |-> txt, prompt_eval_count |-> pec,
     eval_count |-> ec, total_duration |-> total_duration,
     prompt_eval_duration |-> prompt_eval_duration]

\* the reply of a daemon that answers "Paris": 10 prompt tokens, 4 output
\* tokens, total_duration 2 s, prompt_eval_duration 0.5 s
ParisReply == ChatReply(<<"P", "a", "r", "i", "s">>, 10, 4, 2 * DurationHz, DurationHz \div 2)

ChatReplies ==
    {ChatReply(t, pec, ec, d[1], d[2]) :
        t \in {<<>>, <<"a">>}, pec \in {0, 3}, ec \in {0, 2}, d \in {<<0, 0>>, <<3, 1>>}}
    \cup {ParisReply}

\* how `await client.post(...)` and raise_for_status() may end
ChatOutcomes == {"ok", "refused", "status", "timeout", "drop"}

\* raise_for_status() is not called: an error status passes for a reply
ChatRaisesUnchecked(outcome) == outcome \notin {"ok", "status"}

\* `await client.post(...)` or r.raise_for_status() raises
ChatRaises(outcome) == outcome # "ok"

\* chat() up to `await client.post(...)`; the payload carries no limit
OllamaChat(r, E) ==
    /\ pc[r] = "idle"
    /\ \E q \in E.inputs :
          /\ q.variant = "ollama" /\ q.endpoint = "chat"
          /\ Validate(q)
          /\ req' = [req EXCEPT ![r] = q]
          /\ start_time' = [start_time EXCEPT ![r] = Some(now)]
          /\ calls' = [calls EXCEPT ![r] =
                Append(@, OllamaPayload(q, FALSE, None, OllamaChatPrompt(q.messages)))]
          /\ pc' = [pc EXCEPT ![r] = "posting"]
          /\ connOpen' = [connOpen EXCEPT ![r] = TRUE]
          /\ UNCHANGED <<end_time, resp, cause, callerGone, lines, out, ttft, first_token_received,
                         token_count, content, emitted, first_chunk_time, gen_len, gen_done,
                         now, model_loaded>>
    /\ UNCHANGED uiVars

\* the post returns or raises; raise_for_status; the rest of chat()
OllamaChatReply(r, E, outcome) ==
    /\ pc[r] = "posting"
    /\ \E data \in E.replies :
          /\ connOpen' = [connOpen EXCEPT ![r] = FALSE]
          /\ cause' = [cause EXCEPT ![r] = IF outcome = "ok" THEN @ ELSE outcome]
          /\ IF ~ChatRaises(outcome)
             THEN /\ lines' = [lines EXCEPT ![r] = <<data>>]
                  /\ end_time' = [end_time EXCEPT ![r] = Some(now)]
                  /\ resp' = [resp EXCEPT ![r] = "200"]
                  /\ out' = [out EXCEPT ![r] =
                        <<ResponseEvent(data.response,
                                        ChatMetrics(Elapsed(r), data, ModelOf(req[r])))>>]
                  /\ pc' = [pc EXCEPT ![r] = "completed"]
             ELSE \* ConnectError, HTTPStatusError, ReadTimeout, ReadError: nothing
                  \* catches them and the framework answers 500
                  /\ resp' = [resp EXCEPT ![r] = "500"]
                  /\ pc' = [pc EXCEPT ![r] = "crashed"]
                  /\ UNCHANGED <<lines, end_time, out>>
          /\ UNCHANGED <<req, callerGone, calls, start_time, ttft, first_token_received,
                         token_count, content, emitted, first_chunk_time, gen_len, gen_done,
                         now, model_loaded>>
    /\ UNCHANGED uiVars

(***************************************************************************)
(* app_onnx.py                                                             *)
(***************************************************************************)
RECURSIVE Strings(_)
\* the strings over Chars of at most n characters
Strings(n) ==
    IF n = 0 THEN {<<>>}
    ELSE Strings(n - 1)
         \cup {Append(s, c) : s \in {t \in Strings(n - 1) : Len(t) = n - 1}, c \in Chars}

RECURSIVE SplitFrom(_, _, _)
\* str.split(): the maximal runs of non-whitespace characters, in order
SplitFrom(s, i, cur) ==
    IF i > Len(s) THEN (IF cur = <<>> THEN <<>> ELSE <<cur>>)
    ELSE IF s[i] \in Whitespace
         THEN (IF cur = <<>> THEN <<>> ELSE <<cur>>) \o SplitFrom(s, i + 1, <<>>)
         ELSE SplitFrom(s, i + 1, Append(cur, s[i]))

Split(s) == SplitFrom(s, 1, <<>>)

\* the completions the ONNX model may decode
Contents == Strings(MaxContent)

\* token counts a backend may report
TokenCounts == {0, 2}

\* the metrics object of the ONNX variants: the token counts are always given
CountedMetrics(ttft_, total_latency, input_tokens, output_tokens, model) ==
    MetricsObject(ttft_, total_latency,
                  Rates(total_latency, input_tokens, output_tokens,
                        Secs(GenerationTime(ttft_, total_latency))),
                  Some(input_tokens), Some(output_tokens), model)

\* req.max_tokens or DEFAULT_MAX_NEW_TOKENS
OnnxMaxNew(q) == IF Truthy(q.max_tokens) THEN Val(q.max_tokens) ELSE DEFAULT_MAX_NEW_TOKENS

\* the model load _load_model() attempts: none once the globals are set
LoadCalls == IF model_loaded THEN <<>> ELSE <<Call("load", FALSE, None, <<>>)>>

GenerateCall(q, streaming) ==
    Call("generate", streaming, Some(OnnxMaxNew(q)), OnnxBuildPrompt(q.messages))

\* _load_model() raises RuntimeError: the globals stay unset, the framework
\* answers 500
OnnxLoadFails(r, E) ==
    /\ pc[r] = "idle"
    /\ \E q \in E.inputs :
          /\ q.variant = "onnx"
          /\ Validate(q)
          /\ ~model_loaded
          /\ req' = [req EXCEPT ![r] = q]
          /\ resp' = [resp EXCEPT ![r] = "500"]
          /\ pc' = [pc EXCEPT ![r] = "crashed"]
          /\ cause' = [cause EXCEPT ![r] = "load"]
          /\ calls' = [calls EXCEPT ![r] = @ \o LoadCalls]
          /\ UNCHANGED <<end_time, callerGone, connOpen, lines, out, start_time, ttft,
                         first_token_received, token_count, content, emitted,
                         first_chunk_time, gen_len, gen_done, now, model_loaded>>
    /\ UNCHANGED uiVars

\* chat(): load, tokenize, generate, decode, answer; no await in between
OnnxChat(r, E) ==
    /\ pc[r] = "idle"
    /\ \E q \in E.inputs, text \in E.contents,
          input_tokens \in E.counts, output_tokens \in E.counts,
          end \in now..MaxTime :
          /\ q.variant = "onnx" /\ q.endpoint = "chat"
          /\ Validate(q)
          /\ req' = [req EXCEPT ![r] = q]
          /\ model_loaded' = TRUE
          /\ calls' = [calls EXCEPT ![r] = @ \o LoadCalls \o <<GenerateCall(q, FALSE)>>]
          /\ start_time' = [start_time EXCEPT ![r] = Some(now)]
          /\ content' = [content EXCEPT ![r] = text]
          /\ resp' = [resp EXCEPT ![r] = "200"]
          /\ end_time' = [end_time EXCEPT ![r] = Some(end)]
          /\ out' = [out EXCEPT ![r] =
                <<ResponseEvent(text, CountedMetrics(None, end - now, input_tokens,
                                                     output_tokens, ModelOf(q)))>>]
          /\ pc' = [pc EXCEPT ![r] = "completed"]
          /\ now' = end
          /\ UNCHANGED <<cause, callerGone, connOpen, lines, ttft, first_token_received,
                         token_count, emitted, first_chunk_time, gen_len, gen_done>>
    /\ UNCHANGED uiVars

\* chat_stream(): load, tokenize, generate, decode, return the StreamingResponse
OnnxChatStream(r, E) ==
    /\ pc[r] = "idle"
    /\ \E q \in E.inputs, text \in E.contents :
          /\ q.variant = "onnx" /\ q.endpoint = "stream"
          /\ Validate(q)
          /\ req' = [req EXCEPT ![r] = q]
          /\ model_loaded' = TRUE
          /\ calls' = [calls EXCEPT ![r] = @ \o LoadCalls \o <<GenerateCall(q, TRUE)>>]
          /\ start_time' = [start_time EXCEPT ![r] = Some(now)]
          /\ content' = [content EXCEPT ![r] = text]
          /\ first_chunk_time' = [first_chunk_time EXCEPT ![r] = None]
          /\ emitted' = [emitted EXCEPT ![r] = 0]
          /\ resp' = [resp EXCEPT ![r] = "200"]
          /\ pc' = [pc EXCEPT ![r] = "chunking"]
          /\ UNCHANGED <<end_time, cause, callerGone, connOpen, lines, out, ttft,
                         first_token_received, token_count, gen_len, gen_done, now>>
    /\ UNCHANGED uiVars

\* the chunk streamed for one word
WordChunk(w) == w \o <<" ">>

\* the time is taken at every chunk
FirstChunkTimeEveryChunk(r) == Some(now)

\* `if emitted == 0: first_chunk_time = time.time()`
FirstChunkTime(r) == IF emitted[r] = 0 THEN Some(now) ELSE first_chunk_time[r]

\* event_gen: one iteration of `for w in words`
OnnxChunk(r) ==
    /\ pc[r] = "chunking"
    /\ emitted[r] < Len(Split(content[r]))
    /\ first_chunk_time' = [first_chunk_time EXCEPT ![r] = FirstChunkTime(r)]
    /\ out' = [out EXCEPT ![r] =
          Append(@, TokenEvent(WordChunk(Split(content[r])[emitted[r] + 1])))]
    /\ emitted' = [emitted EXCEPT ![r] = @ + 1]
    /\ UNCHANGED <<end_time, pc, req, resp, cause, callerGone, calls, connOpen, lines, start_time,
                   ttft, first_token_received, token_count, content, gen_len, gen_done,
                   now, model_loaded>>
    /\ UNCHANGED uiVars

\* event_gen after the loop: the final event
OnnxFinish(r, E) ==
    /\ pc[r] = "chunking"
    /\ emitted[r] = Len(Split(content[r]))
    /\ \E input_tokens \in E.counts, output_tokens \in E.counts :
          /\ LET ttft_ == IF Truthy(first_chunk_time[r])
                          THEN Some(Val(first_chunk_time[r]) - Val(start_time[r])) ELSE None
             IN  /\ ttft' = [ttft EXCEPT ![r] = ttft_]
                 /\ out' = [out EXCEPT ![r] =
                       Append(@, DoneEvent(CountedMetrics(ttft_, Elapsed(r), input_tokens,
                                                          output_tokens, ModelOf(req[r]))))]
          /\ end_time' = [end_time EXCEPT ![r] = Some(now)]
          /\ pc' = [pc EXCEPT ![r] = "completed"]
          /\ UNCHANGED <<req, resp, cause, callerGone, calls, connOpen, lines, start_time,
                         first_token_received, token_count, content, emitted, first_chunk_time,
                         gen_len, gen_done, now, model_loaded>>
    /\ UNCHANGED uiVars

(***************************************************************************)
(* app_onnx_genai.py                                                       *)
(***************************************************************************)
\* req.max_tokens if req.max_tokens else 4096
GenaiMaxLength(q) == IF Truthy(q.max_tokens) THEN Val(q.max_tokens) ELSE GENAI_DEFAULT_MAX_LENGTH

\* generator.is_done() after one more token: the generator decides, and it
\* is done at the latest after MaxGen tokens
GenDoneAfter(n) == IF n >= MaxGen THEN {TRUE} ELSE BOOLEAN

\* chat() up to the generation loop (the handler runs in a worker thread)
GenaiChat(r, E) ==
    /\ pc[r] = "idle"
    /\ \E q \in E.inputs, done0 \in BOOLEAN :
          /\ q.variant = "genai" /\ q.endpoint = "chat"
          /\ Validate(q)
          /\ req' = [req EXCEPT ![r] = q]
          /\ start_time' = [start_time EXCEPT ![r] = Some(now)]
          /\ calls' = [calls EXCEPT ![r] =
                Append(@, Call("generate", FALSE, Some(GenaiMaxLength(q)),
                               GenaiBuildPrompt(q.messages)))]
          /\ gen_len' = [gen_len EXCEPT ![r] = 0]
          /\ gen_done' = [gen_done EXCEPT ![r] = done0]
          /\ pc' = [pc EXCEPT ![r] = "generating"]
          /\ UNCHANGED <<end_time, resp, cause, callerGone, connOpen, lines, out, ttft,
                         first_token_received, token_count, content, emitted, first_chunk_time,
                         now, model_loaded>>
    /\ UNCHANGED uiVars

\* chat(): one iteration of `while not generator.is_done()`
GenaiNextToken(r) ==
    /\ pc[r] = "generating"
    /\ req[r].endpoint = "chat"
    /\ ~gen_done[r]
    /\ \E done1 \in GenDoneAfter(gen_len[r] + 1) :
          /\ gen_len' = [gen_len EXCEPT ![r] = @ + 1]
          /\ gen_done' = [gen_done EXCEPT ![r] = done1]
          /\ UNCHANGED <<end_time, pc, req, resp, cause, callerGone, calls, connOpen, lines,
                         out, start_time, ttft, first_token_received, token_count, content,
                         emitted, first_chunk_time, now, model_loaded>>
    /\ UNCHANGED uiVars

\* chat() after the loop: decode, metrics, answer
GenaiChatFinish(r, E) ==
    /\ pc[r] = "generating"
    /\ req[r].endpoint = "chat"
    /\ gen_done[r]
    /\ \E text \in E.texts, input_token_count \in E.counts :
          /\ content' = [content EXCEPT ![r] = text]
          /\ resp' = [resp EXCEPT ![r] = "200"]
          /\ end_time' = [end_time EXCEPT ![r] = Some(now)]
          /\ out' = [out EXCEPT ![r] =
                <<ResponseEvent(text, CountedMetrics(None, Elapsed(r), input_token_count,
                                                     gen_len[r], ModelOf(req[r])))>>]
          /\ pc' = [pc EXCEPT ![r] = "completed"]
          /\ UNCHANGED <<req, cause, callerGone, calls, connOpen, lines, start_time, ttft,
                         first_token_received, token_count, emitted, first_chunk_time, gen_len,
                         gen_done, now, model_loaded>>
    /\ UNCHANGED uiVars

\* chat_stream() returns the StreamingResponse; event_gen runs up to the loop
GenaiChatStream(r, E) ==
    /\ pc[r] = "idle"
    /\ \E q \in E.inputs, done0 \in BOOLEAN :
          /\ q.variant = "genai" /\ q.endpoint = "stream"
          /\ Validate(q)
          /\ req' = [req EXCEPT ![r] = q]
          /\ resp' = [resp EXCEPT ![r] = "200"]
          /\ start_time' = [start_time EXCEPT ![r] = Some(now)]
          /\ ttft' = [ttft EXCEPT ![r] = None]
          /\ first_token_received' = [first_token_received EXCEPT ![r] = FALSE]
          /\ token_count' = [token_count EXCEPT ![r] = 0]
          /\ calls' = [calls EXCEPT ![r] =
                Append(@, Call("generate", TRUE, Some(GenaiMaxLength(q)),
                               GenaiBuildPrompt(q.messages)))]
          /\ gen_len' = [gen_len EXCEPT ![r] = 0]
          /\ gen_done' = [gen_done EXCEPT ![r] = done0]
          /\ pc' = [pc EXCEPT ![r] = "generating"]
          /\ UNCHANGED <<end_time, cause, callerGone, connOpen, lines, out, content, emitted,
                         first_chunk_time, now, model_loaded>>
    /\ UNCHANGED uiVars

\* event_gen: one iteration of `while not generator.is_done()`, up to the
\* `await asyncio.sleep(0)` after the yield
GenaiStreamToken(r, E) ==
    /\ pc[r] = "generating"
    /\ req[r].endpoint = "stream"
    /\ ~gen_done[r]
    /\ \E token_text \in E.texts, done1 \in GenDoneAfter(gen_len[r] + 1) :
          /\ gen_len' = [gen_len EXCEPT ![r] = @ + 1]
          /\ gen_done' = [gen_done EXCEPT ![r] = done1]
          /\ ttft' = [ttft EXCEPT ![r] =
                IF first_token_received[r] THEN @ ELSE Some(Elapsed(r))]
          /\ first_token_received' = [first_token_received EXCEPT ![r] = TRUE]
          /\ token_count' = [token_count EXCEPT ![r] = @ + 1]
          /\ out' = [out EXCEPT ![r] = Append(@, TokenEvent(token_text))]
          /\ UNCHANGED <<end_time, pc, req, resp, cause, callerGone, calls, connOpen, lines,
                         start_time, content, emitted, first_chunk_time, now, model_loaded>>
    /\ UNCHANGED uiVars

\* event_gen after the loop: the final event
GenaiStreamFinish(r, E) ==
    /\ pc[r] = "generating"
    /\ req[r].endpoint = "stream"
    /\ gen_done[r]
    /\ \E input_token_count \in E.counts :
          /\ end_time' = [end_time EXCEPT ![r] = Some(now)]
          /\ out' = [out EXCEPT ![r] =
                Append(@, DoneEvent(CountedMetrics(ttft[r], Elapsed(r), input_token_count,
                                                   token_count[r], ModelOf(req[r]))))]
          /\ pc' = [pc EXCEPT ![r] = "completed"]
          /\ UNCHANGED <<req, resp, cause, callerGone, calls, connOpen, lines, start_time, ttft,
                         first_token_received, token_count, content, emitted, first_chunk_time,
                         gen_len, gen_done, now, model_loaded>>
    /\ UNCHANGED uiVars

(***************************************************************************)
(* The caller disconnects.                                                 *)
(***************************************************************************)
\* where a streaming generator is suspended (an await or a yield)
StreamWaits == {"connecting", "streaming", "chunking"}

Suspended(r) ==
    \/ pc[r] \in StreamWaits
    \/ pc[r] = "generating" /\ req[r].endpoint = "stream"

\* where a non-streaming handler waits for the backend
Blocked(r) ==
    \/ pc[r] = "posting"
    \/ pc[r] = "generating" /\ req[r].endpoint = "chat"

\* streaming path: the response task is cancelled at the generator's
\* suspension point; the `async with` blocks close the backend connection
CancelStream(r) ==
    /\ Suspended(r)
    /\ ~callerGone[r]
    /\ callerGone' = [callerGone EXCEPT ![r] = TRUE]
    /\ pc' = [pc EXCEPT ![r] = "cancelled"]
    /\ connOpen' = [connOpen EXCEPT ![r] = FALSE]
    /\ UNCHANGED <<end_time, req, resp, cause, calls, lines, out, start_time, ttft,
                   first_token_received, token_count, content, emitted, first_chunk_time,
                   gen_len, gen_done, now, model_loaded>>
    /\ UNCHANGED uiVars

\* non-streaming path: nothing in chat() looks at the caller; the handler
\* goes on waiting for (or computing) the completion
CallerLeaves(r) ==
    /\ Blocked(r)
    /\ ~callerGone[r]
    /\ callerGone' = [callerGone EXCEPT ![r] = TRUE]
    /\ UNCHANGED <<end_time, pc, req, resp, cause, calls, connOpen, lines, out, start_time, ttft,
                   first_token_received, token_count, content, emitted, first_chunk_time,
                   gen_len, gen_done, now, model_loaded>>
    /\ UNCHANGED uiVars

(***************************************************************************)
(* BACKUP UI 2/llm_client.py: LLMClient.chat_stream, the generator that    *)
(* reads the gateway's SSE response.  A response line is                   *)
(* `prefix` followed by a body that is not JSON ("garbage"), is JSON but   *)
(* not an object ("value"), or is an object ("dict") of which `done`,      *)
(* `token` and `metrics` are what .get() returns; the empty line has kind  *)
(* "empty".                                                                *)
(***************************************************************************)
ClientLine(prefix, kind, done, token, m) ==
    [prefix |-> prefix, kind |-> kind, done |-> done, token |-> token, metrics |-> m]

BlankLine == ClientLine("", "empty", FALSE, <<>>, NoMetrics)

\* the first line of the frame the gateway writes for an event
ServerLine(e) == ClientLine(SseFrame(e)[1], "dict", e.type = "done", e.token, e.metrics)

\* some metrics object of a done frame
SomeMetrics == StreamMetrics(Some(1), 2, 3, 2, "smollm2:1.7b")

\* the lines a response may consist of
ClientLines ==
    {BlankLine}
    \cup {ServerLine(TokenEvent(t)) : t \in {<<>>, <<"a">>, <<"b">>}}
    \cup {ServerLine(DoneEvent(SomeMetrics))}
    \cup {ClientLine("event: ", "dict", FALSE, <<"a">>, NoMetrics),
          ClientLine("data: ", "garbage", FALSE, <<>>, NoMetrics),
          ClientLine("data: ", "value", FALSE, <<>>, NoMetrics)}

\* the events the generator yields
ClientEvent(type, token, text, m, error) ==
    [type |-> type, token |-> token, content |-> text, metrics |-> m, error |-> error]

ClientToken(token, text) == ClientEvent("token", token, text, NoMetrics, "")
ClientDone(text, m) == ClientEvent("done", <<>>, text, m, "")
ClientError(error) == ClientEvent("error", <<>>, <<>>, NoMetrics, error)

ClientInit ==
    /\ client_pc = "idle"
    /\ client_lines = <<>>
    /\ full_content = <<>>
    /\ yielded = <<>>

\* the generator is started: full_content = "", the request is sent
ClientChatStream ==
    /\ client_pc = "idle"
    /\ client_pc' = "connecting"
    /\ full_content' = <<>>
    /\ UNCHANGED <<client_lines, yielded>>
    /\ UNCHANGED notClientVars

\* client.stream(...) and response.raise_for_status(): the response is
\* there, or an exception reaches one of the three `except` clauses
ClientConnect(outcome) ==
    /\ client_pc = "connecting"
    /\ IF outcome = "ok"
       THEN /\ client_pc' = "reading"
            /\ UNCHANGED yielded
       ELSE /\ client_pc' = "ended"
            /\ yielded' = Append(yielded, ClientError(outcome))
    /\ UNCHANGED <<client_lines, full_content>>
    /\ UNCHANGED notClientVars

\* only the newest token is kept
AccumulateLatest(text, token) == token

\* full_content += token
Accumulate(text, token) == text \o token

\* `if not line or not line.startswith("data: "): continue`
NotData(line) == line.kind = "empty" \/ line.prefix # "data: "

\* one iteration of `async for line in response.aiter_lines()`
ClientReadLine(line) ==
    /\ client_pc = "reading"
    /\ Len(client_lines) < MaxFrames
    /\ client_lines' = Append(client_lines, line)
    /\ CASE NotData(line) \/ line.kind = "garbage" ->
              \* continue; json.JSONDecodeError: continue
              UNCHANGED <<client_pc, full_content, yielded>>
         [] ~NotData(line) /\ line.kind = "value" ->
              \* data.get raises AttributeError: `except Exception`
              /\ client_pc' = "ended"
              /\ yielded' = Append(yielded, ClientError("AttributeError"))
              /\ UNCHANGED full_content
         [] ~NotData(line) /\ line.kind = "dict" /\ line.done ->
              /\ yielded' = Append(yielded, ClientDone(full_content, line.metrics))
              /\ client_pc' = "ended"
              /\ UNCHANGED full_content
         [] OTHER ->
              IF line.token # <<>>
              THEN /\ full_content' = Accumulate(full_content, line.token)
                   /\ yielded' = Append(yielded, ClientToken(line.token, full_content'))
                   /\ UNCHANGED client_pc
              ELSE UNCHANGED <<client_pc, full_content, yielded>>
    /\ UNCHANGED notClientVars

\* the response body ends: the loop is over and the generator returns
ClientEof ==
    /\ client_pc = "reading"
    /\ client_pc' = "ended"
    /\ UNCHANGED <<client_lines, full_content, yielded>>
    /\ UNCHANGED notClientVars

\* aiter_lines raises (httpx.ReadError is an httpx.HTTPError)
ClientReadFails ==
    /\ client_pc = "reading"
    /\ client_pc' = "ended"
    /\ yielded' = Append(yielded, ClientError("HTTPError"))
    /\ UNCHANGED <<client_lines, full_content>>
    /\ UNCHANGED notClientVars

(***************************************************************************)
(* BACKUP UI 2/chat_interface.py: ChatState of the Panel interface.  Each  *)
(* click on Send creates a task that runs send_message_async; the tasks    *)
(* and the other handlers interleave at the awaits of the event loop.  A   *)
(* message is [role, content].                                             *)
(***************************************************************************)
SendTasks == {"t1", "t2"}

\* what the user may have typed
PanelInputs == {<<>>, <<" ">>, <<"a">>}

\* the response lines the gateway may send to the Panel interface
PanelLines ==
    {ServerLine(TokenEvent(<<"a">>)), ServerLine(DoneEvent(SomeMetrics)),
     ClientLine("data: ", "garbage", FALSE, <<>>, NoMetrics),
     ClientLine("data: ", "value", FALSE, <<>>, NoMetrics)}

ChatMsg(role, text) == [role |-> role, content |-> text]

PanelInit ==
    /\ messages = <<>>
    /\ current_input = <<>>
    /\ is_streaming = FALSE
    /\ last_metrics = NoMetrics
    /\ assistant_at = 0
    /\ send_pc = [t \in SendTasks |-> "new"]
    /\ seen = 0

\* the guard is not looked at
SendRefusedNever(message) == Strip(message) = <<>>

\* `if not message.strip() or self.is_streaming: return`
SendRefused(message) == Strip(message) = <<>> \/ is_streaming

\* send_message_async returns at once
PanelSendReturns(t, message) ==
    /\ send_pc[t] = "new"
    /\ SendRefused(message)
    /\ send_pc' = [send_pc EXCEPT ![t] = "returned"]
    /\ UNCHANGED <<messages, current_input, is_streaming, last_metrics, assistant_at, seen>>
    /\ UNCHANGED <<notPanelVars, clientVars>>

\* send_message_async up to the first pull on llm_client.chat_stream(...):
\* the user message and the placeholder are appended, the generator starts
PanelSend(t, message) ==
    /\ send_pc[t] = "new"
    /\ ~SendRefused(message)
    /\ messages' = messages \o <<ChatMsg("user", message), ChatMsg("assistant", <<>>)>>
    /\ assistant_at' = Len(messages) + 2
    /\ current_input' = <<>>
    /\ is_streaming' = TRUE
    /\ send_pc' = [send_pc EXCEPT ![t] = "streaming"]
    /\ seen' = 0
    /\ client_pc' = "connecting"
    /\ client_lines' = <<>>
    /\ full_content' = <<>>
    /\ yielded' = <<>>
    /\ UNCHANGED last_metrics
    /\ UNCHANGED notPanelVars

\* self.messages[:-1]
DropLast(msgs) == SubSeq(msgs, 1, Len(msgs) - 1)

\* the error branch and the `except` clause: the incomplete assistant
\* message is removed; `finally` follows, since an error event is the
\* generator's last
PanelFails(t) ==
    /\ messages' = DropLast(messages)
    /\ assistant_at' = IF assistant_at = Len(messages) THEN 0 ELSE assistant_at
    /\ is_streaming' = FALSE
    /\ send_pc' = [send_pc EXCEPT ![t] = "failed"]

\* one iteration of `async for event in self.llm_client.chat_stream(...)`;
\* save_chat or the reading of the metrics may raise
PanelEvent(t, raises) ==
    /\ send_pc[t] = "streaming"
    /\ seen < Len(yielded)
    /\ seen' = seen + 1
    /\ LET event == yielded[seen + 1]
       IN  CASE event.type = "token" ->
                 /\ messages' =
                       IF assistant_at > 0
                       THEN [messages EXCEPT ![assistant_at].content = event.content]
                       ELSE messages
                 /\ UNCHANGED <<is_streaming, last_metrics, assistant_at, send_pc>>
             [] event.type = "done" ->
                 /\ last_metrics' = event.metrics
                 /\ IF raises
                    THEN PanelFails(t)
                    ELSE /\ is_streaming' = FALSE
                         /\ send_pc' = [send_pc EXCEPT ![t] = "finished"]
                         /\ UNCHANGED <<messages, assistant_at>>
             [] OTHER ->
                 /\ PanelFails(t)
                 /\ UNCHANGED last_metrics
    /\ UNCHANGED current_input
    /\ UNCHANGED <<notPanelVars, clientVars>>

\* the generator is exhausted without a terminal event: the loop ends
PanelStreamEnds(t) ==
    /\ send_pc[t] = "streaming"
    /\ client_pc = "ended"
    /\ seen = Len(yielded)
    /\ is_streaming' = FALSE
    /\ send_pc' = [send_pc EXCEPT ![t] = "finished"]
    /\ UNCHANGED <<messages, current_input, last_metrics, assistant_at, seen>>
    /\ UNCHANGED <<notPanelVars, clientVars>>

\* clear_chat, from the New Chat and Clear buttons
PanelClearChat ==
    /\ messages # <<>>
    /\ messages' = <<>>
    /\ assistant_at' = 0
    /\ UNCHANGED <<current_input, is_streaming, last_metrics, send_pc, seen>>
    /\ UNCHANGED <<notPanelVars, clientVars>>

(***************************************************************************)
(* BACKUP UI/llm_ui: ChatState.send_message of the Reflex interface, over  *)
(* LLMAPIClient.chat_stream.  The framework runs the event handlers of one *)
(* state one after the other, so a handler is not interleaved with         *)
(* another.                                                                *)
(***************************************************************************)
ReflexInit ==
    /\ rx_pc = "idle"
    /\ rx_lines = <<>>
    /\ rx_messages = <<>>
    /\ rx_current_input = <<>>
    /\ rx_is_streaming = FALSE
    /\ current_response = <<>>
    /\ error_message = ""
    /\ rx_last_metrics = NoMetrics

\* set_current_input
RxSetCurrentInput(value) ==
    /\ rx_pc = "idle"
    /\ rx_current_input # value
    /\ rx_current_input' = value
    /\ UNCHANGED <<rx_pc, rx_lines, rx_messages, rx_is_streaming, current_response,
                   error_message, rx_last_metrics>>
    /\ UNCHANGED notReflexVars

\* send_message: `if not self.current_input.strip(): return`
RxSendReturns ==
    /\ rx_pc = "idle"
    /\ Strip(rx_current_input) = <<>>
    /\ rx_pc' = "returned"
    /\ UNCHANGED <<rx_lines, rx_messages, rx_current_input, rx_is_streaming, current_response,
                   error_message, rx_last_metrics>>
    /\ UNCHANGED notReflexVars

\* send_message up to the first pull on llm_client.chat_stream(...)
RxSend ==
    /\ rx_pc = "idle"
    /\ Strip(rx_current_input) # <<>>
    /\ rx_messages' = Append(rx_messages, ChatMsg("user", rx_current_input))
    /\ rx_current_input' = <<>>
    /\ rx_is_streaming' = TRUE
    /\ current_response' = <<>>
    /\ error_message' = ""
    /\ rx_pc' = "streaming"
    /\ UNCHANGED <<rx_lines, rx_last_metrics>>
    /\ UNCHANGED notReflexVars

\* `except Exception as e:` of send_message
RxExcept(e) ==
    /\ error_message' = e
    /\ rx_is_streaming' = FALSE
    /\ current_response' = <<>>
    /\ rx_pc' = "finished"

\* client.stream(...) or raise_for_status() raises, or the body breaks off:
\* the exception leaves the generator and reaches send_message
RxStreamRaises ==
    /\ rx_pc = "streaming"
    /\ RxExcept("HTTPError")
    /\ UNCHANGED <<rx_lines, rx_messages, rx_current_input, rx_last_metrics>>
    /\ UNCHANGED notReflexVars

\* `if line.startswith("data: "):` and json.loads succeeds
IsChunk(line) == line.kind # "empty" /\ line.prefix = "data: " /\ line.kind # "garbage"

\* one line of the response: LLMAPIClient.chat_stream skips it or yields the
\* parsed chunk, for which send_message runs one iteration of its loop
RxLine(line) ==
    /\ rx_pc = "streaming"
    /\ Len(rx_lines) < MaxFrames
    /\ rx_lines' = Append(rx_lines, line)
    /\ CASE ~IsChunk(line) ->
              UNCHANGED <<rx_pc, rx_messages, rx_is_streaming, current_response,
                          error_message, rx_last_metrics>>
         [] IsChunk(line) /\ line.kind = "value" ->
              \* chunk.get raises AttributeError
              /\ RxExcept("AttributeError")
              /\ UNCHANGED <<rx_messages, rx_last_metrics>>
         [] IsChunk(line) /\ line.kind = "dict" /\ line.done ->
              /\ rx_last_metrics' = line.metrics
              /\ rx_messages' = Append(rx_messages, ChatMsg("assistant", current_response))
              /\ rx_is_streaming' = FALSE
              /\ current_response' = <<>>
              /\ rx_pc' = "finished"
              /\ UNCHANGED error_message
         [] OTHER ->
              /\ current_response' = current_response \o line.token
              /\ UNCHANGED <<rx_pc, rx_messages, rx_is_streaming, error_message,
                             rx_last_metrics>>
    /\ UNCHANGED rx_current_input
    /\ UNCHANGED notReflexVars

\* the response body ends: the generator is exhausted, the loop of
\* send_message ends and the handler returns
RxStreamEnds ==
    /\ rx_pc = "streaming"
    /\ rx_pc' = "finished"
    /\ UNCHANGED <<rx_lines, rx_messages, rx_current_input, rx_is_streaming,
                   current_response, error_message, rx_last_metrics>>
    /\ UNCHANGED notReflexVars

(***************************************************************************)
(* BACKUP UI 2/auth.py: SessionManager and AuthState.                      *)
(***************************************************************************)
SessionIds == {"s1", "s2"}

\* a call to the session manager: the id, the clock, the last_activity the
\* table held for the id when the call was made, and what the call returned
\* (for get_session the session's last_activity, None for None)
SessionCall(op, id, found, result) ==
    [op |-> op, id |-> id, at |-> utcnow, found |-> found, result |-> result]

SessionInit ==
    /\ sessions = [id \in SessionIds |-> None]
    /\ issued = {}
    /\ session_id = ""
    /\ is_authenticated = FALSE
    /\ last_call = [op |-> "none", id |-> "", at |-> 0, found |-> None, result |-> None]
    /\ utcnow = 0

\* datetime.utcnow() advances, by 12 hours
SessionTick ==
    /\ utcnow < MaxUtc
    /\ utcnow' = utcnow + 1
    /\ UNCHANGED <<sessions, issued, session_id, is_authenticated, last_call>>
    /\ UNCHANGED notSessionVars

\* AuthState.login with valid credentials: session_manager.create_session
\* under a token secrets.token_urlsafe(32) has not returned before
AuthLogin(id) ==
    /\ id \notin issued
    /\ issued' = issued \cup {id}
    /\ sessions' = [sessions EXCEPT ![id] = Some(utcnow)]
    /\ session_id' = id
    /\ is_authenticated' = TRUE
    /\ last_call' = SessionCall("create", id, sessions[id], Some(utcnow))
    /\ UNCHANGED utcnow
    /\ UNCHANGED notSessionVars

\* no session ever expires
ExpiredNever(last_activity) == FALSE

\* datetime.utcnow() - session["last_activity"] > self.session_timeout
Expired(last_activity) == utcnow - last_activity > session_timeout

\* SessionManager.get_session
GetSession(id) ==
    /\ IF sessions[id] = None
       THEN /\ last_call' = SessionCall("get", id, sessions[id], None)
            /\ UNCHANGED sessions
       ELSE IF Expired(Val(sessions[id]))
       THEN /\ sessions' = [sessions EXCEPT ![id] = None]
            /\ last_call' = SessionCall("get", id, sessions[id], None)
       ELSE /\ sessions' = [sessions EXCEPT ![id] = Some(utcnow)]
            /\ last_call' = SessionCall("get", id, sessions[id], Some(utcnow))
    /\ UNCHANGED <<issued, session_id, is_authenticated, utcnow>>
    /\ UNCHANGED notSessionVars

\* SessionManager.delete_session
DeleteSession(id) ==
    /\ sessions' = [sessions EXCEPT ![id] = None]
    /\ last_call' = SessionCall("delete", id, sessions[id], None)
    /\ UNCHANGED <<issued, session_id, is_authenticated, utcnow>>
    /\ UNCHANGED notSessionVars

\* AuthState.logout
AuthLogout ==
    /\ is_authenticated \/ session_id # ""
    /\ IF session_id # ""
       THEN /\ sessions' = [sessions EXCEPT ![session_id] = None]
            /\ last_call' = SessionCall("delete", session_id, sessions[session_id], None)
       ELSE UNCHANGED <<sessions, last_call>>
    /\ is_authenticated' = FALSE
    /\ session_id' = ""
    /\ UNCHANGED <<issued, utcnow>>
    /\ UNCHANGED notSessionVars

UiInit == ClientInit /\ PanelInit /\ ReflexInit /\ SessionInit

(***************************************************************************)
(* Specification: one request, every variant, every backend behaviour.     *)
(***************************************************************************)
Reqs == {"r1"}

MaxTokensInputs == {None, Some(2), Some(0), Some(0 - 1)}

\* request bodies: well-formed ones, and one for each way of being invalid
Inputs ==
    {MkReq(v, e, <<UserHi>>, 2, mt) : v \in Variants, e \in Endpoints, mt \in MaxTokensInputs}
    \cup {MkReq(v, e, <<>>, 2, None) : v \in Variants, e \in Endpoints}
    \cup {MkReq(v, e, <<UserHi>>, t, None) :
             v \in Variants, e \in Endpoints, t \in {0 - 1, 0, 20, 21}}


StepOf(r, E) ==
    \/ Reject(r, E)
    \/ OllamaChatStream(r, E)
    \/ \E o \in {"refused", "status", "ok"} : OllamaConnect(r, o)
    \/ \E line \in E.lines : OllamaLine(r, line)
    \/ OllamaEof(r)
    \/ OllamaDrop(r)
    \/ OllamaChat(r, E)
    \/ \E o \in ChatOutcomes : OllamaChatReply(r, E, o)
    \/ OnnxLoadFails(r, E)
    \/ OnnxChat(r, E)
    \/ OnnxChatStream(r, E)
    \/ OnnxChunk(r)
    \/ OnnxFinish(r, E)
    \/ GenaiChat(r, E)
    \/ GenaiNextToken(r)
    \/ GenaiChatFinish(r, E)
    \/ GenaiChatStream(r, E)
    \/ GenaiStreamToken(r, E)
    \/ GenaiStreamFinish(r, E)
    \/ CancelStream(r)
    \/ CallerLeaves(r)

Init == InitOver(Reqs) /\ UiInit

\* what the callers and the backends may do
Env ==
    [inputs |-> Inputs, lines |-> BackendLines, contents |-> Contents,
     counts |-> TokenCounts, replies |-> ChatReplies, texts |-> Strings(1)]

Next == Tick \/ \E r \in Reqs : StepOf(r, Env)

Spec == Init /\ [][Next]_vars

(***************************************************************************)
(* Specification: two requests in flight at once, interleaved in any       *)
(* order, against the daemon-backed relay and the ONNX variant.            *)
(***************************************************************************)
ConcReqs == {"r1", "r2"}

ConcInputs ==
    {MkReq(v, e, <<UserHi>>, 2, None) : v \in Variants, e \in Endpoints}
    \cup {MkReq("ollama", "stream", <<>>, 2, None)}

ConcEnv ==
    [inputs |-> ConcInputs,
     lines |-> {GarbageLine, Fragment(<<"a">>), DoneLine(<<>>, None, None)},
     contents |-> {<<"a">>, <<"a", " ", "b">>},
     counts |-> {2},
     replies |-> {ChatReply(<<"a">>, 3, 2, 3, 1)},
     texts |-> {<<"a">>}]

InitConc == InitOver(ConcReqs) /\ UiInit

NextConc == Tick \/ \E r \in ConcReqs : StepOf(r, ConcEnv)

SpecConc == InitConc /\ [][NextConc]_vars

(***************************************************************************)
(* Specification: one request whose conversation is any sequence of at     *)
(* most MaxMessages messages, against backends that answer at once.        *)
(***************************************************************************)
PromptContents == {<<>>, <<" ", "a">>, <<"b", NL>>}

PromptMessages == [role : Roles, content : PromptContents]

RECURSIVE MessageSeqs(_)
\* the non-empty conversations of at most n messages
MessageSeqs(n) ==
    IF n = 0 THEN {}
    ELSE MessageSeqs(n - 1)
         \cup {<<m>> : m \in PromptMessages}
         \cup {Append(ms, m) : ms \in {x \in MessageSeqs(n - 1) : Len(x) = n - 1},
                                m \in PromptMessages}

Conversations == MessageSeqs(MaxMessages)

PromptInputs ==
    {MkReq(v, e, msgs, 2, None) : v \in Variants, e \in Endpoints, msgs \in Conversations}
    \cup {MkReq("ollama", "chat", <<>>, 2, None)}

PromptEnv ==
    [inputs |-> PromptInputs,
     lines |-> {DoneLine(<<>>, None, None)},
     contents |-> {<<"a">>},
     counts |-> {2},
     replies |-> {ChatReply(<<"a">>, 3, 2, 3, 1)},
     texts |-> {<<"a">>}]

NextPrompt == Tick \/ \E r \in Reqs : StepOf(r, PromptEnv)

SpecPrompt == Init /\ [][NextPrompt]_vars

(***************************************************************************)
(* Specification: one request against a backend that may fall silent.      *)
(* What the service does by itself happens in the end: the connect phase   *)
(* is over (accepted, refused or given up by the operating system), the    *)
(* 120 s timeout of the non-streaming client fires while the post is       *)
(* pending, and the in-process generators and chunk loops go on.  Nothing  *)
(* obliges the backend to send a line, to close or to drop the connection, *)
(* nor the caller to disconnect.                                           *)
(***************************************************************************)
NextHang == Tick \/ \E r \in Reqs : StepOf(r, ConcEnv)

HangFairness ==
    \A r \in Reqs :
        /\ WF_vars(\E o \in {"refused", "status", "ok"} : OllamaConnect(r, o))
        /\ WF_vars(OllamaChatReply(r, ConcEnv, "timeout"))
        /\ WF_vars(OnnxChunk(r))
        /\ WF_vars(OnnxFinish(r, ConcEnv))
        /\ WF_vars(GenaiNextToken(r))
        /\ WF_vars(GenaiChatFinish(r, ConcEnv))
        /\ WF_vars(GenaiStreamToken(r, ConcEnv))
        /\ WF_vars(GenaiStreamFinish(r, ConcEnv))

SpecHang == Init /\ [][NextHang]_vars /\ HangFairness

(***************************************************************************)
(* Specification: one run of LLMClient.chat_stream over any response of at *)
(* most MaxFrames lines.                                                   *)
(***************************************************************************)
NextClient ==
    \/ ClientChatStream
    \/ \E o \in {"ok", "ConnectError", "HTTPError", "Exception"} : ClientConnect(o)
    \/ \E line \in ClientLines : ClientReadLine(line)
    \/ ClientEof
    \/ ClientReadFails

SpecClient == Init /\ [][NextClient]_<<vars, uiVars>>

(***************************************************************************)
(* Specification: two clicks on Send in the Panel interface, the stream of *)
(* each send being any response of at most MaxFrames lines.                *)
(***************************************************************************)
NextPanel ==
    \/ \E t \in SendTasks, message \in PanelInputs : PanelSendReturns(t, message)
    \/ \E t \in SendTasks, message \in PanelInputs : PanelSend(t, message)
    \/ \E t \in SendTasks, raises \in BOOLEAN : PanelEvent(t, raises)
    \/ \E t \in SendTasks : PanelStreamEnds(t)
    \/ PanelClearChat
    \/ \E o \in {"ok", "ConnectError"} : ClientConnect(o)
    \/ \E line \in PanelLines : ClientReadLine(line)
    \/ ClientEof
    \/ ClientReadFails

SpecPanel == Init /\ [][NextPanel]_<<vars, uiVars>>

(***************************************************************************)
(* Specification: one message sent from the Reflex interface, the stream   *)
(* being any response of at most MaxFrames lines.                          *)
(***************************************************************************)
NextReflex ==
    \/ \E value \in PanelInputs : RxSetCurrentInput(value)
    \/ RxSendReturns
    \/ RxSend
    \/ RxStreamRaises
    \/ \E line \in ClientLines : RxLine(line)
    \/ RxStreamEnds

SpecReflex == Init /\ [][NextReflex]_<<vars, uiVars>>

(***************************************************************************)
(* Specification: the session manager under any sequence of logins,        *)
(* get_session and delete_session calls and logouts, as time passes.       *)
(***************************************************************************)
NextSession ==
    \/ SessionTick
    \/ \E id \in SessionIds : AuthLogin(id)
    \/ \E id \in SessionIds : GetSession(id)
    \/ \E id \in SessionIds : DeleteSession(id)
    \/ AuthLogout

SpecSession == Init /\ [][NextSession]_<<vars, uiVars>>

(***************************************************************************)
(* What the caller can observe.                                            *)
(***************************************************************************)
\* the error kind the caller can read off the response: FastAPI's 422
\* carries the validation detail, an exception nothing catches becomes a
\* bare 500, and a streaming generator that raises just ends the body
SurfacedKind(r) ==
    CASE resp[r] = "422" -> "InvalidRequest"
      [] resp[r] = "500" -> "InternalServerError"
      [] OTHER -> "none"

RECURSIVE ClientFullContent(_)
\* LLMClient.chat_stream: full_content after the frames evs; a frame with
\* an empty token adds nothing, the done frame ends the loop
ClientFullContent(evs) ==
    IF evs = <<>> \/ Head(evs).type = "done" THEN <<>>
    ELSE Head(evs).token \o ClientFullContent(Tail(evs))

(***************************************************************************)
(* Vocabulary of the properties.                                           *)
(***************************************************************************)
Requests == DOMAIN pc

\* the request was accepted by a streaming endpoint
Streamed(r) == req[r].endpoint = "stream" /\ resp[r] = "200"

\* the generator is over and the caller did not cancel
Ended(r) == pc[r] \in {"completed", "closed", "crashed"} /\ ~callerGone[r]

TerminalsOf(evs) == {i \in DOMAIN evs : IsTerminal(evs[i])}
FailedOf(evs) == {i \in DOMAIN evs : evs[i].type = "failed"}
TokensOf(evs) == {i \in DOMAIN evs : evs[i].type = "token"}

EndsWith(evs, type) == evs # <<>> /\ evs[Len(evs)].type = type

RECURSIVE TokenText(_)
\* the texts of the Token events of evs, concatenated in order
TokenText(evs) ==
    IF evs = <<>> THEN <<>>
    ELSE (IF Head(evs).type = "token" THEN Head(evs).token ELSE <<>>) \o TokenText(Tail(evs))

\* the error kind the taxonomy gives to a cause of failure
KindOf(c) ==
    CASE c = "invalid" -> "InvalidRequest"
      [] c = "refused" -> "BackendUnreachable"
      [] c = "status" -> "BackendError"
      [] c = "drop" -> "StreamInterrupted"
      [] OTHER -> "none"

\* the full text of a completed request: what the consumer has accumulated
\* and, for the simulated-streaming variant, the decoded content
FullText(r) == IF req[r].variant = "onnx" THEN content[r] ELSE ClientFullContent(out[r])

Malformed(line) == line.kind \in {"empty", "garbage", "nonobj"}

\* the backend calls that ask for a completion
GenerateCalls(r) == {i \in DOMAIN calls[r] : calls[r][i].op = "generate"}

\* the last event emitted for a request
LastEvent(r) == out[r][Len(out[r])]

\* the fields of CompletionMetrics
CompletionMetricsFields ==
    {"ttft", "total_latency", "tokens_per_second", "output_tokens_per_second",
     "input_tokens", "output_tokens", "tpot", "model"}

\* a field that is null or one value
NullOrValue(o) == o = None \/ Len(o) = 1

\* a token count, an absent one counting for none
Count(o) == IF o = None THEN 0 ELSE Val(o)

\* end_time - start_time of a completed request, in ticks
TotalLatency(r) == Val(end_time[r]) - Val(start_time[r])

\* first_token_time - start_time, in ticks, 0 when no token was produced
FirstTokenDelay(r) == IF ttft[r] = None THEN 0 ELSE Val(ttft[r])

RECURSIVE TokenTexts(_)
\* the texts of the Token events of evs, one by one
TokenTexts(evs) ==
    IF evs = <<>> THEN <<>>
    ELSE (IF Head(evs).type = "token" THEN <<Head(evs).token>> ELSE <<>>)
         \o TokenTexts(Tail(evs))

RECURSIVE FragmentsOf(_)
\* the content fragments among the backend lines ls, in order of arrival
FragmentsOf(ls) ==
    IF ls = <<>> THEN <<>>
    ELSE (IF Head(ls).kind = "obj" /\ ~Head(ls).done /\ Head(ls).response # <<>>
          THEN <<Head(ls).response>> ELSE <<>>)
         \o FragmentsOf(Tail(ls))

\* system contents, then the ROLE: content lines, one per line, trimmed
Linearized(msgs) == Strip(JoinLines(SystemContents(msgs) \o HistoryLines(msgs)))

\* the system block, the dialogue block and the line ASSISTANT:, joined
\* by newlines and trimmed
LinearizedWithCue(msgs) ==
    Strip(JoinLines(<<JoinLines(SystemContents(msgs)), JoinLines(HistoryLines(msgs)),
                      <<"ASSISTANT", ":">>>>))

\* everything one request owns
ReqState(r) ==
    <<pc[r], req[r], resp[r], cause[r], callerGone[r], calls[r], connOpen[r], lines[r], out[r],
      start_time[r], end_time[r], ttft[r], first_token_received[r], token_count[r],
      content[r], emitted[r], first_chunk_time[r], gen_len[r], gen_done[r]>>

(***************************************************************************)
(* C1.  Terminal uniqueness: every request served by a streaming endpoint  *)
(* that the caller does not cancel ends, whatever the backend does, with   *)
(* exactly one terminal event (done or failed), and that event is the last *)
(* one emitted.                                                            *)
(***************************************************************************)
C1_TerminalUniqueness ==
    \A r \in Requests :
        (Streamed(r) /\ Ended(r)) =>
            /\ Cardinality(TerminalsOf(out[r])) = 1
            /\ IsTerminal(out[r][Len(out[r])])

(***************************************************************************)
(* C2.  At most one terminal event is emitted per request and nothing is   *)
(* emitted after it: a terminal event is always the last event of the      *)
(* request's sequence, however many lines the backend goes on to offer.    *)
(***************************************************************************)
C2_TerminalAbsorbing ==
    \A r \in Requests :
        \A i \in DOMAIN out[r] : IsTerminal(out[r][i]) => i = Len(out[r])

\* the daemon-backed relay has emitted tokens and then done, and the backend
\* could still send lines
C2_Witness ==
    \E r \in Requests :
        /\ req[r].variant = "ollama" /\ req[r].endpoint = "stream"
        /\ pc[r] = "completed"
        /\ EndsWith(out[r], "done")
        /\ TokensOf(out[r]) # {}
        /\ Len(lines[r]) < MaxLines

(***************************************************************************)
(* C3.  Stream interruption: when the backend connection drops after at    *)
(* least one Token event was emitted, the streaming path ends the          *)
(* request's events with a failed event.                                   *)
(***************************************************************************)
C3_DropYieldsFailed ==
    \A r \in Requests :
        (Streamed(r) /\ Ended(r) /\ cause[r] = "drop" /\ TokensOf(out[r]) # {}) =>
            EndsWith(out[r], "failed")

(***************************************************************************)
(* C4.  Backend unreachable on the streaming path: when the connection is  *)
(* refused, the output holds no Token event and exactly one failed event,  *)
(* of kind BackendUnreachable.                                             *)
(***************************************************************************)
C4_RefusedYieldsOneFailed ==
    \A r \in Requests :
        (Streamed(r) /\ Ended(r) /\ cause[r] = "refused") =>
            /\ TokensOf(out[r]) = {}
            /\ Cardinality(FailedOf(out[r])) = 1
            /\ SurfacedKind(r) = "BackendUnreachable"

(***************************************************************************)
(* C5.  Error taxonomy: every failure surfaced to the caller carries the   *)
(* kind of its cause (InvalidRequest, BackendUnreachable, BackendError,    *)
(* StreamInterrupted), and an error status during a stream yields exactly  *)
(* one failed event, the last event.                                       *)
(***************************************************************************)
C5_ErrorTaxonomy ==
    \A r \in Requests :
        /\ (KindOf(cause[r]) # "none" /\ ~callerGone[r]) => SurfacedKind(r) = KindOf(cause[r])
        /\ (Streamed(r) /\ Ended(r) /\ cause[r] = "status") =>
              /\ Cardinality(FailedOf(out[r])) = 1
              /\ EndsWith(out[r], "failed")

(***************************************************************************)
(* C6.  Validation short-circuit: on both endpoints of every variant a     *)
(* request with no message, a temperature outside [0,2] or a max_tokens    *)
(* <= 0 is rejected as InvalidRequest and no backend call is made for it.  *)
(***************************************************************************)
C6_ValidationShortCircuit ==
    \A r \in Requests :
        (pc[r] # "idle" /\ ~WellFormed(req[r])) =>
            /\ calls[r] = <<>>
            /\ SurfacedKind(r) = "InvalidRequest"

(***************************************************************************)
(* C7.  Token accumulation: when a request ends with a done event, the     *)
(* concatenation of its Token texts equals the full text of the            *)
(* completion: the text the consumer has accumulated and, for the          *)
(* simulated-streaming variant, the content decoded from the model.        *)
(***************************************************************************)
C7_TokenAccumulation ==
    \A r \in Requests :
        (Streamed(r) /\ EndsWith(out[r], "done")) => TokenText(out[r]) = FullText(r)

(***************************************************************************)
(* C8.  Malformed backend lines are not fatal: receiving a line that is    *)
(* empty or cannot be parsed as an event emits nothing, leaves the token   *)
(* counter and the first-token time alone and does not end the request.    *)
(***************************************************************************)
C8_MalformedSkipped ==
    [][\A r \in Requests :
          (Len(lines'[r]) = Len(lines[r]) + 1 /\ Malformed(lines'[r][Len(lines'[r])])) =>
              /\ out'[r] = out[r]
              /\ token_count'[r] = token_count[r]
              /\ ttft'[r] = ttft[r]
              /\ pc'[r] = pc[r]]_vars

(***************************************************************************)
(* C9.  Cancellation: once the caller has disconnected before a terminal   *)
(* event, the pending backend wait is aborted, the backend connection is   *)
(* closed and the request does nothing more: no event, no backend work.    *)
(***************************************************************************)
C9_CancelAborts ==
    [][\A r \in Requests :
          /\ callerGone'[r] => (~connOpen'[r] /\ pc'[r] \notin {"posting", "generating"})
          /\ callerGone[r] => ReqState(r)' = ReqState(r)]_vars

(***************************************************************************)
(* C10.  Request independence: a step of one request changes nothing but   *)
(* the state that request owns; no mutable state is shared between         *)
(* requests.                                                               *)
(***************************************************************************)
C10_RequestIndependence ==
    [][/\ model_loaded' = model_loaded
       /\ \E r \in Requests : \A q \in Requests \ {r} : ReqState(q)' = ReqState(q)]_vars

(***************************************************************************)
(* C11.  No automatic retry: at most one backend call asking for a         *)
(* completion is ever made for a request; after a connect failure, an      *)
(* error status or a mid-stream drop the backend is not called again.      *)
(***************************************************************************)
C11_NoRetry ==
    \A r \in Requests : Cardinality(GenerateCalls(r)) <= 1

\* the connection was refused and the request is over after its one call
C11_Witness ==
    \E r \in Requests :
        /\ cause[r] = "refused"
        /\ pc[r] = "crashed"
        /\ Cardinality(GenerateCalls(r)) = 1

(***************************************************************************)
(* C12.  Non-streaming all-or-nothing: a finished /v1/chat request has     *)
(* either answered 200 with one complete response (content and metrics)    *)
(* built from a successful backend reply, or answered with an error and no *)
(* body carrying content or metrics; an unreachable backend or an error    *)
(* status always gives the latter.                                         *)
(***************************************************************************)
C12_AllOrNothing ==
    \A r \in Requests :
        (req[r].endpoint = "chat" /\ pc[r] \in {"completed", "crashed"}) =>
            IF cause[r] = "none"
            THEN /\ resp[r] = "200"
                 /\ Len(out[r]) = 1
                 /\ out[r][1].type = "response"
                 /\ DOMAIN out[r][1].metrics = CompletionMetricsFields
                 /\ out[r][1].metrics.total_latency # None
                 /\ req[r].variant = "ollama" => out[r][1].token = lines[r][1].response
            ELSE /\ resp[r] = "500"
                 /\ out[r] = <<>>

\* the daemon answered the non-streaming call with an error status
C12_Witness ==
    \E r \in Requests :
        /\ req[r].variant = "ollama" /\ req[r].endpoint = "chat"
        /\ cause[r] = "status"
        /\ resp[r] = "500"
        /\ out[r] = <<>>

(***************************************************************************)
(* C13.  Wire alphabet: every chunk a streaming endpoint writes is a frame *)
(* `data: <json>` followed by a blank line; its payload is {token: text}   *)
(* or {done: true, token: "[DONE]", metrics}, and the metrics object has   *)
(* exactly the eight CompletionMetrics fields, total_latency and model     *)
(* present, every other field a value or null.                             *)
(***************************************************************************)
C13_WireAlphabet ==
    \A r \in Requests :
        Streamed(r) =>
            \A i \in DOMAIN out[r] :
                LET frame == Encode(out[r][i])
                    payload == frame[2]
                IN  /\ frame[1] = "data: "
                    /\ frame[3] = <<NL, NL>>
                    /\ IF DOMAIN payload = {"token"} THEN TRUE
                       ELSE /\ DOMAIN payload = {"done", "token", "metrics"}
                            /\ payload.done = TRUE
                            /\ payload.token = DONE
                            /\ DOMAIN payload.metrics = CompletionMetricsFields
                            /\ payload.metrics.total_latency # None
                            /\ payload.metrics.model = req[r].model
                            /\ \A k \in CompletionMetricsFields \ {"total_latency", "model"} :
                                  NullOrValue(payload.metrics[k])

\* a stream that wrote token frames and then the terminal frame
C13_Witness ==
    \E r \in Requests :
        /\ Streamed(r)
        /\ EndsWith(out[r], "done")
        /\ Len(out[r]) >= 3

(***************************************************************************)
(* C14.  Metrics non-negativity: for every completed request, the clock    *)
(* never going backwards, total_latency >= 0 and, when ttft is present,    *)
(* 0 <= ttft <= total_latency; so for the times measured as for the        *)
(* figures reported.                                                       *)
(***************************************************************************)
C14_MetricsNonNegative ==
    \A r \in Requests :
        pc[r] = "completed" =>
            LET m == LastEvent(r).metrics
            IN  /\ TotalLatency(r) >= 0
                /\ Val(m.total_latency) >= 0
                /\ ttft[r] # None => (0 <= Val(ttft[r]) /\ Val(ttft[r]) <= TotalLatency(r))
                /\ m.ttft # None => (0 <= Val(m.ttft) /\ Val(m.ttft) <= Val(m.total_latency))

\* a completed stream whose first token came after a measurable delay and
\* whose end came later still
C14_Witness ==
    \E r \in Requests :
        /\ pc[r] = "completed"
        /\ Streamed(r)
        /\ LastEvent(r).metrics.ttft # None
        /\ ttft[r] # None
        /\ 0 < Val(ttft[r]) /\ Val(ttft[r]) < TotalLatency(r)

(***************************************************************************)
(* C15.  Throughput guard: in the metrics of every completed request,      *)
(* tokens_per_second is present exactly when total_latency > 0 and         *)
(* input tokens + output tokens > 0, and is then their quotient (reported  *)
(* with two decimals); otherwise it is null.                               *)
(***************************************************************************)
C15_ThroughputGuard ==
    \A r \in Requests :
        pc[r] = "completed" =>
            LET m == LastEvent(r).metrics
                sum == Count(m.input_tokens) + Count(m.output_tokens)
            IN  m.tokens_per_second =
                    IF TotalLatency(r) > 0 /\ sum > 0
                    THEN Some(Round(Rate(sum, TotalLatency(r)), 2))
                    ELSE None

\* a completed request that reports a throughput over prompt and output tokens
C15_Witness ==
    \E r \in Requests :
        /\ pc[r] = "completed"
        /\ LastEvent(r).metrics.tokens_per_second # None
        /\ Count(LastEvent(r).metrics.input_tokens) > 0
        /\ Count(LastEvent(r).metrics.output_tokens) > 0

\* a completed request with tokens but no measurable latency: the guard
\* leaves the throughput out
C15_WitnessGuarded ==
    \E r \in Requests :
        /\ pc[r] = "completed"
        /\ TotalLatency(r) = 0
        /\ Count(LastEvent(r).metrics.output_tokens) > 0
        /\ LastEvent(r).metrics.tokens_per_second = None

(***************************************************************************)
(* C16.  TTFT presence and stability: the time to the first token, once    *)
(* recorded, is not changed by later fragments; in the done event ttft is  *)
(* present if and only if at least one Token event was emitted, and is     *)
(* then first_token_time - start_time, a difference of zero included.      *)
(***************************************************************************)
C16_TtftPresence ==
    [][\A r \in Requests :
          /\ ttft[r] # None => ttft'[r] = ttft[r]
          /\ (Streamed(r)' /\ EndsWith(out'[r], "done") /\ out'[r] # out[r]) =>
                LET m == out'[r][Len(out'[r])].metrics
                IN  IF TokensOf(out'[r]) # {}
                    THEN /\ ttft'[r] # None
                         /\ m.ttft = Some(Round(Secs(Val(ttft'[r])), 4))
                    ELSE m.ttft = None]_vars

(***************************************************************************)
(* C17.  Output-rate metrics: with generation_time = total_latency - ttft  *)
(* when ttft is present and total_latency otherwise, every completed       *)
(* request reports output_tokens_per_second = output tokens /              *)
(* generation_time and tpot = generation_time / output tokens exactly when *)
(* generation_time > 0 and output tokens > 0, and both null otherwise.     *)
(***************************************************************************)
C17_OutputRates ==
    \A r \in Requests :
        pc[r] = "completed" =>
            LET m == LastEvent(r).metrics
                n == Count(m.output_tokens)
                generation_time == TotalLatency(r) - FirstTokenDelay(r)
            IN  IF generation_time > 0 /\ n > 0
                THEN /\ m.output_tokens_per_second = Some(Round(Rate(n, generation_time), 2))
                     /\ m.tpot = Some(Round(PerToken(generation_time, n), 4))
                ELSE /\ m.output_tokens_per_second = None
                     /\ m.tpot = None

(***************************************************************************)
(* C17, amended.  As C17, except that the non-streaming endpoint of the    *)
(* daemon-backed variant takes generation_time to be the daemon's          *)
(* total_duration - prompt_eval_duration when that difference is positive  *)
(* (total_latency otherwise), and that both rates are null when            *)
(* total_latency is 0.                                                     *)
(***************************************************************************)
C17_OutputRatesAmended ==
    \A r \in Requests :
        pc[r] = "completed" =>
            LET m == LastEvent(r).metrics
                n == Count(m.output_tokens)
                reported == lines[r][1].total_duration - lines[r][1].prompt_eval_duration
                generation_time ==
                    IF req[r].variant = "ollama" /\ req[r].endpoint = "chat" /\ reported > 0
                    THEN <<reported, DurationHz>>
                    ELSE Secs(TotalLatency(r) - FirstTokenDelay(r))
            IN  IF TotalLatency(r) > 0 /\ generation_time[1] > 0 /\ n > 0
                THEN /\ m.output_tokens_per_second =
                            Some(Round(TokensOver(n, generation_time), 2))
                     /\ m.tpot = Some(Round(SecsPer(generation_time, n), 4))
                ELSE /\ m.output_tokens_per_second = None
                     /\ m.tpot = None

\* a completed stream whose generation time is the latency less a
\* measurable time to the first token, and which reports both rates
C17_Witness ==
    \E r \in Requests :
        /\ pc[r] = "completed"
        /\ Streamed(r)
        /\ FirstTokenDelay(r) > 0
        /\ TotalLatency(r) > FirstTokenDelay(r)
        /\ LastEvent(r).metrics.output_tokens_per_second # None
        /\ LastEvent(r).metrics.tpot # None

(***************************************************************************)
(* C18.  Token-count precedence: the input_tokens and output_tokens of the *)
(* done event are the counts the backend's done marker carries, whatever   *)
(* the number of fragments relayed; the locally accumulated count is used  *)
(* for output_tokens only when the backend gives none.                     *)
(***************************************************************************)
C18_TokenCountPrecedence ==
    \A r \in Requests :
        (Streamed(r) /\ EndsWith(out[r], "done")) =>
            LET m == LastEvent(r).metrics
                marker == lines[r][Len(lines[r])]
            IN  /\ req[r].variant = "ollama" =>
                      /\ marker.prompt_eval_count # None =>
                            m.input_tokens = marker.prompt_eval_count
                      /\ m.output_tokens =
                            IF marker.eval_count # None THEN marker.eval_count
                            ELSE PositiveOrNone(token_count[r])
                /\ req[r].variant = "genai" => m.output_tokens = Some(token_count[r])

(***************************************************************************)
(* C19.  Fragment relay: at every moment of a stream the Token events      *)
(* emitted so far carry, one for one and in order of arrival, the content  *)
(* fragments received from the backend so far, each fragment alone:        *)
(* nothing is dropped, duplicated, reordered or held back.                 *)
(***************************************************************************)
C19_FragmentRelay ==
    \A r \in Requests :
        /\ (req[r].variant = "ollama" /\ req[r].endpoint = "stream") =>
              TokenTexts(out[r]) = FragmentsOf(lines[r])
        /\ (req[r].variant = "genai" /\ req[r].endpoint = "stream") =>
              Len(TokenTexts(out[r])) = gen_len[r]

\* the daemon sent two different fragments and both were relayed in order
C19_Witness ==
    \E r \in Requests :
        /\ req[r].variant = "ollama" /\ req[r].endpoint = "stream"
        /\ TokenTexts(out[r]) = << <<"a">>, <<"b">> >>

(***************************************************************************)
(* C20.  Prompt linearization: the prompt of every backend call is the     *)
(* contents of the system messages in order, one per line, followed by     *)
(* the non-system messages in order as lines `ROLE: content`, trimmed,     *)
(* with nothing else added; both endpoints of every variant build it so.   *)
(***************************************************************************)
C20_PromptLinearization ==
    \A r \in Requests :
        \A i \in GenerateCalls(r) : calls[r][i].prompt = Linearized(req[r].messages)

(***************************************************************************)
(* C20, amended.  As C20 for the daemon-backed and the ONNX variant; the   *)
(* onnxruntime-genai variant sends the system block, the dialogue block    *)
(* and a final line `ASSISTANT:`, joined by newlines and trimmed.          *)
(***************************************************************************)
C20_PromptLinearizationAmended ==
    \A r \in Requests :
        \A i \in GenerateCalls(r) :
            calls[r][i].prompt =
                IF req[r].variant = "genai"
                THEN LinearizedWithCue(req[r].messages)
                ELSE Linearized(req[r].messages)

\* the streaming relay was called with a conversation of a system message
\* and a user message whose ends had to be trimmed
C20_Witness ==
    \E r \in Requests :
        /\ req[r].variant = "ollama" /\ req[r].endpoint = "stream"
        /\ GenerateCalls(r) # {}
        /\ req[r].messages = << [role |-> "system", content |-> <<" ", "a">>],
                                [role |-> "user", content |-> <<"b", NL>>] >>
        /\ calls[r][1].prompt = <<"a", NL, "USER", ":", " ", "b">>

(***************************************************************************)
(* C21.  Generation limit forwarding: the call the daemon-backed variant   *)
(* makes carries the request's max_tokens as its limit when max_tokens is  *)
(* present and no limit when it is absent, on the non-streaming path as on *)
(* the streaming path; model, prompt and temperature are those of the      *)
(* request on both paths and the stream flag alone tells the paths apart.  *)
(***************************************************************************)
C21_LimitForwarding ==
    \A r \in Requests :
        req[r].variant = "ollama" =>
            \A i \in GenerateCalls(r) :
                /\ calls[r][i].limit = req[r].max_tokens
                /\ calls[r][i].model = req[r].model
                /\ calls[r][i].temperature = req[r].temperature
                /\ calls[r][i].prompt = Linearized(req[r].messages)
                /\ calls[r][i].stream = (req[r].endpoint = "stream")

C22_WitnessEmpty ==
    \E r \in Requests :
        /\ req[r].variant \in {"onnx", "genai"} /\ Streamed(r)
        /\ pc[r] = "completed"
        /\ out[r] = <<LastEvent(r)>>
        /\ LastEvent(r).metrics.ttft = None

\* where a request's handler or generator is over
Outcomes == {"rejected", "completed", "closed", "crashed", "cancelled"}

(***************************************************************************)
(* C23.  Hung-backend guard: every accepted request reaches a terminal     *)
(* outcome in the end, even if the backend accepts the connection and then *)
(* never sends a byte: the non-streaming wait is bounded, the streaming    *)
(* path is ended by a read guard.                                          *)
(***************************************************************************)
C23_HungBackendGuard ==
    \A r \in Reqs : (pc[r] # "idle") ~> (pc[r] \in Outcomes)

\* the part of C23 about the non-streaming paths: their wait comes to an end
C23_NonStreamingBounded ==
    \A r \in Reqs : (pc[r] # "idle" /\ req[r].endpoint = "chat") ~> (pc[r] \in Outcomes)

(***************************************************************************)
(* C24.  Non-streaming generation window: when the daemon's reply to       *)
(* /v1/chat has eval_count > 0 and total_latency > 0, the generation       *)
(* window is total_duration - prompt_eval_duration, in seconds, when       *)
(* total_duration exceeds prompt_eval_duration and the measured            *)
(* total_latency otherwise, and output_tokens_per_second is eval_count     *)
(* over that window: 2.67 for 4 tokens, total_duration 2 s and             *)
(* prompt_eval_duration 0.5 s.  The content is the reply's response text   *)
(* and output_tokens is eval_count.                                        *)
(***************************************************************************)
C24_ChatGenerationWindow ==
    \A r \in Requests :
        (req[r].variant = "ollama" /\ req[r].endpoint = "chat" /\ pc[r] = "completed") =>
            LET data == lines[r][1]
                m == LastEvent(r).metrics
                window ==
                    IF data.total_duration > data.prompt_eval_duration
                    THEN <<data.total_duration - data.prompt_eval_duration, DurationHz>>
                    ELSE <<TotalLatency(r), ClockHz>>
            IN  /\ LastEvent(r).token = data.response
                /\ (data.eval_count > 0 /\ TotalLatency(r) > 0) =>
                      /\ m.output_tokens_per_second =
                            Some(HalfEven(100 * data.eval_count * window[2], window[1]))
                      /\ m.output_tokens = Some(data.eval_count)
                /\ (data = ParisReply /\ TotalLatency(r) > 0) =>
                      /\ m.output_tokens_per_second = Some(267)
                      /\ m.output_tokens = Some(4)
                      /\ LastEvent(r).token = <<"P", "a", "r", "i", "s">>

\* the daemon answered "Paris" with 4 output tokens in a window of 1.5 s and
\* the service measured a latency that is not that window
C24_Witness ==
    \E r \in Requests :
        /\ req[r].variant = "ollama" /\ req[r].endpoint = "chat"
        /\ pc[r] = "completed"
        /\ lines[r][1] = ParisReply
        /\ TotalLatency(r) > 0
        /\ LastEvent(r).metrics.output_tokens_per_second = Some(267)

\* the daemon reported no durations: the window is the measured latency
C24_WitnessFallback ==
    \E r \in Requests :
        /\ req[r].variant = "ollama" /\ req[r].endpoint = "chat"
        /\ pc[r] = "completed"
        /\ lines[r][1].total_duration = 0
        /\ lines[r][1].eval_count > 0
        /\ TotalLatency(r) > 0
        /\ LastEvent(r).metrics.output_tokens_per_second # None

DonesOf(evs) == {i \in DOMAIN evs : evs[i].type = "done"}

\* the request is served by the daemon-backed relay
Relayed(r) == req[r].variant = "ollama" /\ req[r].endpoint = "stream"

(***************************************************************************)
(* C25.  Done only on the backend's done marker: the daemon-backed relay   *)
(* emits a done event only in the step in which it receives a backend line *)
(* flagged done, it emits one at most, and the metrics in it are those of  *)
(* that moment; when the backend stream ends without a done marker no done *)
(* event is ever emitted.                                                  *)
(***************************************************************************)
C25_DoneOnlyOnMarker ==
    /\ [](\A r \in Requests :
            Relayed(r) =>
                /\ Cardinality(DonesOf(out[r])) <= 1
                /\ DonesOf(out[r]) # {} =>
                      /\ lines[r] # <<>>
                      /\ lines[r][Len(lines[r])].kind = "obj"
                      /\ lines[r][Len(lines[r])].done
                      /\ end_time[r] # None
                      /\ LastEvent(r).metrics.total_latency =
                            Some(Round(Secs(TotalLatency(r)), 4))
                /\ pc[r] = "closed" => DonesOf(out[r]) = {})
    /\ [][\A r \in Requests :
             (Relayed(r) /\ DonesOf(out'[r]) # DonesOf(out[r])) =>
                 /\ Len(lines'[r]) = Len(lines[r]) + 1
                 /\ lines'[r][Len(lines'[r])].done
                 /\ end_time'[r] = Some(now)]_vars

\* the relay has passed on a fragment and then, at a later reading of the
\* clock, the backend's done marker
C25_Witness ==
    \E r \in Requests :
        /\ Relayed(r)
        /\ pc[r] = "completed"
        /\ TokensOf(out[r]) # {}
        /\ DonesOf(out[r]) = {Len(out[r])}
        /\ TotalLatency(r) > 0

\* the backend stream ended after a fragment and without a done marker
C25_WitnessEof ==
    \E r \in Requests :
        /\ Relayed(r)
        /\ pc[r] = "closed"
        /\ TokensOf(out[r]) # {}
        /\ DonesOf(out[r]) = {}

RECURSIVE YieldedTokens(_)
\* the tokens of the token events among evs, concatenated in order
YieldedTokens(evs) ==
    IF evs = <<>> THEN <<>>
    ELSE (IF Head(evs).type = "token" THEN Head(evs).token ELSE <<>>)
         \o YieldedTokens(Tail(evs))

\* a response line the consumer has to pass over
Skippable(line) ==
    line.kind = "empty" \/ line.prefix # "data: " \/ line.kind = "garbage"

(***************************************************************************)
(* C26.  Client-side stream consumer: whatever lines the response consists *)
(* of, LLMClient.chat_stream yields token events and then at most one      *)
(* terminal event (done or error), after which it yields nothing; the      *)
(* content of each token event is the concatenation of the tokens yielded  *)
(* up to and including it, the content of the done event that of all       *)
(* tokens yielded; a line that is empty, lacks the `data: ` prefix or does *)
(* not parse is passed over, the accumulated content unchanged.            *)
(***************************************************************************)
C26_ClientConsumer ==
    /\ [](\A i \in DOMAIN yielded :
             /\ yielded[i].type \in {"done", "error"} => i = Len(yielded)
             /\ yielded[i].type # "error" =>
                   yielded[i].content = YieldedTokens(SubSeq(yielded, 1, i)))
    /\ [](full_content = YieldedTokens(yielded))
    /\ [][(yielded # <<>> /\ yielded[Len(yielded)].type \in {"done", "error"}) =>
              yielded' = yielded]_<<vars, uiVars>>
    /\ [][(Len(client_lines') = Len(client_lines) + 1
           /\ Skippable(client_lines'[Len(client_lines')])) =>
              /\ full_content' = full_content
              /\ yielded' = yielded
              /\ client_pc' = client_pc]_<<vars, uiVars>>

\* two tokens were yielded, then a line that does not parse was passed
\* over, then the done frame arrived
C26_Witness ==
    /\ Len(client_lines) >= 3
    /\ client_lines[Len(client_lines) - 1].kind = "garbage"
    /\ Len(yielded) = 3
    /\ yielded[2].type = "token"
    /\ yielded[2].content = yielded[1].token \o yielded[2].token
    /\ yielded[3].type = "done"
    /\ yielded[3].content = yielded[2].content

\* the sends that have a stream in flight
InFlight == {t \in SendTasks : send_pc[t] = "streaming"}

(***************************************************************************)
(* C27.  Single in-flight stream per chat (Panel ChatState): a send issued *)
(* while is_streaming is true changes nothing and starts no request, so at *)
(* most one stream is in flight; is_streaming is true exactly while a send *)
(* is in flight, hence false again when the send has finished, whatever    *)
(* the outcome; and the step that handles an error event or an exception   *)
(* removes the placeholder assistant message and no other message.         *)
(***************************************************************************)
C27_SingleInFlight ==
    /\ [](Cardinality(InFlight) <= 1)
    /\ [](is_streaming <=> InFlight # {})
    /\ [][\A t \in SendTasks :
             (is_streaming /\ send_pc[t] = "new" /\ send_pc'[t] # "new") =>
                 /\ send_pc'[t] = "returned"
                 /\ <<messages, current_input, is_streaming, last_metrics>>' =
                       <<messages, current_input, is_streaming, last_metrics>>
                 /\ clientVars' = clientVars]_<<vars, uiVars>>
    /\ [][\A t \in SendTasks :
             (send_pc[t] = "streaming" /\ send_pc'[t] = "failed") =>
                 /\ ~is_streaming'
                 /\ IF assistant_at > 0
                    THEN /\ messages[assistant_at] = ChatMsg("assistant", full_content)
                         /\ messages' = SubSeq(messages, 1, assistant_at - 1)
                         /\ messages'[Len(messages')].role = "user"
                    ELSE messages' = messages]_<<vars, uiVars>>

\* a second send was refused while the first one was streaming, and the
\* first one then ended on an error event after a token: the flag is
\* released, the placeholder is gone and the user message is still there
C27_Witness ==
    /\ send_pc = [t \in SendTasks |-> IF t = "t1" THEN "failed" ELSE "returned"]
    /\ ~is_streaming
    /\ Len(yielded) = 2
    /\ yielded[2].type = "error"
    /\ seen = 2
    /\ messages = <<ChatMsg("user", <<"a">>)>>

\* a send ended because save_chat raised after the done event
C27_WitnessException ==
    /\ \E t \in SendTasks : send_pc[t] = "failed"
    /\ ~is_streaming
    /\ yielded # <<>>
    /\ yielded[Len(yielded)].type = "done"
    /\ seen = Len(yielded)
    /\ messages = <<ChatMsg("user", <<"a">>)>>

RECURSIVE ChunkTokens(_)
\* the tokens of the chunks among the lines ls that come before the first
\* done chunk, concatenated in order
ChunkTokens(ls) ==
    IF ls = <<>> \/ (IsChunk(Head(ls)) /\ Head(ls).done) THEN <<>>
    ELSE (IF IsChunk(Head(ls)) THEN Head(ls).token ELSE <<>>) \o ChunkTokens(Tail(ls))

\* a done chunk was received
DoneReceived(ls) == \E i \in DOMAIN ls : IsChunk(ls[i]) /\ ls[i].kind = "dict" /\ ls[i].done

\* the assistant messages among msgs
AssistantsOf(msgs) == {i \in DOMAIN msgs : msgs[i].role = "assistant"}

(***************************************************************************)
(* C28.  Streaming flag is always released (Reflex ChatState.send_message):*)
(* whatever chunks the gateway sends, a stream that ends without a done    *)
(* chunk included, is_streaming is false once send_message has finished,   *)
(* and an assistant message holding the concatenation of the received      *)
(* tokens has been appended, exactly once, if and only if a done chunk was *)
(* received.                                                               *)
(***************************************************************************)
C28_FlagReleased ==
    rx_pc = "finished" =>
        /\ ~rx_is_streaming
        /\ IF DoneReceived(rx_lines)
           THEN /\ Cardinality(AssistantsOf(rx_messages)) = 1
                /\ rx_messages[Len(rx_messages)] =
                      ChatMsg("assistant", ChunkTokens(rx_lines))
           ELSE AssistantsOf(rx_messages) = {}

\* the part of C28 about the assistant message
C28_AssistantOnDone ==
    rx_pc = "finished" =>
        IF DoneReceived(rx_lines)
        THEN /\ Cardinality(AssistantsOf(rx_messages)) = 1
             /\ rx_messages[Len(rx_messages)] = ChatMsg("assistant", ChunkTokens(rx_lines))
        ELSE AssistantsOf(rx_messages) = {}

(***************************************************************************)
(* C29.  Session lifetime: get_session returns a session only if its       *)
(* last_activity is not older than session_timeout, and then refreshes     *)
(* last_activity; a session found older than that is removed from the      *)
(* table by the call, which returns None; a session that has been removed  *)
(* (expired or deleted) never comes back, so that after delete_session(id) *)
(* every later get_session(id) returns None.                               *)
(***************************************************************************)
C29_SessionLifetime ==
    /\ [](last_call.op = "get" =>
             last_call.result =
                 IF last_call.found # None
                    /\ last_call.at - Val(last_call.found) <= session_timeout
                 THEN Some(last_call.at)
                 ELSE None)
    /\ [][\A id \in SessionIds :
             /\ (last_call'.op = "get" /\ last_call'.id = id /\ last_call' # last_call) =>
                   sessions'[id] = last_call'.result
             /\ (last_call'.op = "delete" /\ last_call'.id = id) => sessions'[id] = None
             /\ (id \in issued /\ sessions[id] = None) => sessions'[id] = None
             /\ (sessions[id] = None /\ last_call'.op = "get" /\ last_call'.id = id) =>
                   last_call'.result = None]_<<vars, uiVars>>

\* a session created at 0 was found more than 24 hours later by get_session,
\* which removed it and returned None
C29_Witness ==
    /\ last_call.op = "get"
    /\ last_call.found # None
    /\ last_call.at - Val(last_call.found) > session_timeout
    /\ last_call.result = None
    /\ sessions[last_call.id] = None

\* a session was found exactly 24 hours old: it is returned and refreshed
C29_WitnessLive ==
    /\ last_call.op = "get"
    /\ last_call.found # None
    /\ last_call.at - Val(last_call.found) = session_timeout
    /\ last_call.result = Some(last_call.at)
    /\ sessions[last_call.id] = Some(utcnow)

\* request r is served by a streaming endpoint that counts its tokens itself
CountsTokens(r) == req[r].variant \in {"ollama", "genai"} /\ req[r].endpoint = "stream"

\* the line the relay has just read from the backend is a JSON object that
\* is not the done marker and carries no fragment
ReadEmptyFragment(r) ==
    /\ Relayed(r)
    /\ Len(lines'[r]) = Len(lines[r]) + 1
    /\ LET line == lines'[r][Len(lines'[r])]
       IN  /\ line.kind # "empty"
           /\ JsonLoads(line) = "dict"
           /\ ~line.done
           /\ ResponseOf(line) = <<>>

(***************************************************************************)
(* C30.  Local token counter: at every point of a streaming request the    *)
(* local counter token_count equals the number of Token events emitted so  *)
(* far for the request; the counter changes only by one, in the step that  *)
(* emits a Token event; and a backend line with an empty fragment leaves   *)
(* the events, the counter and the first-token time as they were.          *)
(***************************************************************************)
C30_LocalTokenCounter ==
    /\ [](\A r \in Reqs :
             CountsTokens(r) => token_count[r] = Cardinality(TokensOf(out[r])))
    /\ [][\A r \in Reqs :
             (CountsTokens(r) /\ token_count'[r] # token_count[r]) =>
                 /\ token_count'[r] = token_count[r] + 1
                 /\ Len(out'[r]) = Len(out[r]) + 1
                 /\ SubSeq(out'[r], 1, Len(out[r])) = out[r]
                 /\ out'[r][Len(out'[r])].type = "token"]_vars
    /\ [][\A r \in Reqs :
             ReadEmptyFragment(r) =>
                 /\ out'[r] = out[r]
                 /\ token_count'[r] = token_count[r]
                 /\ ttft'[r] = ttft[r]
                 /\ first_token_received'[r] = first_token_received[r]]_vars

\* the relay has read a line with an empty fragment after it has emitted a
\* Token event, and has gone on to emit the done event
C30_Witness ==
    \E r \in Reqs :
        /\ Relayed(r)
        /\ pc[r] = "completed"
        /\ token_count[r] = 1
        /\ Cardinality(TokensOf(out[r])) = 1
        /\ \E i \in DOMAIN lines[r] :
              /\ lines[r][i].kind # "empty"
              /\ JsonLoads(lines[r][i]) = "dict"
              /\ ~lines[r][i].done
              /\ ResponseOf(lines[r][i]) = <<>>

\* the generator has streamed two tokens, one of which decodes to no text
C30_WitnessGenai ==
    \E r \in Reqs :
        /\ req[r].variant = "genai"
        /\ req[r].endpoint = "stream"
        /\ token_count[r] = 2
        /\ \E i \in TokensOf(out[r]) : out[r][i].token = <<>>

====
